---- MODULE Spec2Model ----
(***************************************************************************)
(* Regression circuit (LogisticCircuit/algo/RegressionCircuit.py): the     *)
(* circuit DAG, its builder, the split selector, the structural mutator,   *)
(* the element list / parameter matrix and the feature columns.            *)
(*                                                                         *)
(* A circuit is a record: `nodes` and `elems` are the Python heap (a node  *)
(* or element is its position in the sequence, 0 is None), the other       *)
(* fields are the attributes of RegressionCircuit.  `err` holds the        *)
(* exception that ended the last call ("none" when it returned).           *)
(* A call of the code is one operator; the value of each of its steps is   *)
(* handed to the operator of the next step.                                *)
(***************************************************************************)
EXTENDS Integers, Sequences, FiniteSets, TLC

VARIABLES circuit,   \* the RegressionCircuit object
          features,  \* the columns of data.features (<<>> before the first extraction)
          prev,      \* the circuit as it was when the last call started
          last,      \* the last call: its name, arguments and result
          nops,      \* number of calls made on the circuit so far
          learner,   \* the local variables of learn_regression_circuit
          file       \* the circuit file: its lines, the edits made since save wrote it

vars == <<circuit, features, prev, last, nops, learner, file>>

\* ---------------------------------------------------------------- bounds
MaxOps == 2          \* calls of split, select or change_structure per behaviour
MaxRounds == 1       \* of them, leading calls of change_structure
MaxDepth == 2        \* split depth parameters 0..MaxDepth
MaxNumSplits == 2    \* num_splits 0..MaxNumSplits
MaxVariance == 2     \* abstract variances 0..MaxVariance
MaxPicks == 2        \* element columns with support in the data of a structure round
MaxSelectPicks == 3  \* element columns with support in the data given to the selector
MaxLearnPicks == 1   \* element columns with support in the training data of the learner
MaxIter == 3         \* max_iter_sl 1..MaxIter
MaxValidateEvery == 2 \* validate_every 1..MaxValidateEvery
MaxPatience == 1     \* patience 0..MaxPatience
MaxError == 1        \* validation errors 0..MaxError
MaxFit == 0          \* fitted coefficient vectors 0..MaxFit
MaxEdits == 2        \* edits of a saved file
MaxValues == 4       \* values of an added V line 0..MaxValues
MaxLearnVariables == 3 \* variables of the vtree given to the learner

\* the sequence given as a function on 1..n, as the tuple of its values
Tuple(f) == f \o <<>>

\* ---------------------------------------------------------------- vtrees
\* A vtree is a table of nodes; a leaf has var > 0, an internal node has
\* left/right > 0.  The root is the last node of the table.
VLeaf(v) == [left |-> 0, right |-> 0, var |-> v]
VNode(l, r) == [left |-> l, right |-> r, var |-> 0]

Vtrees ==
  << \* (1 (2 3))
     << VLeaf(1), VLeaf(2), VLeaf(3), VNode(2, 3), VNode(1, 4) >>,
     \* ((1 2) 3)
     << VLeaf(1), VLeaf(2), VLeaf(3), VNode(1, 2), VNode(4, 3) >>,
     \* ((1 2) (3 4))
     << VLeaf(1), VLeaf(2), VLeaf(3), VLeaf(4), VNode(1, 2), VNode(3, 4), VNode(5, 6) >>,
     \* ((1 2) (3 (4 5)))
     << VLeaf(1), VLeaf(2), VLeaf(3), VLeaf(4), VLeaf(5),
        VNode(1, 2), VNode(4, 5), VNode(3, 7), VNode(6, 8) >>,
     \* (1 2)
     << VLeaf(1), VLeaf(2), VNode(1, 2) >> >>

VtreeRoot(vt) == Len(vt)
is_leaf(vt, t) == vt[t].var > 0

RECURSIVE variables(_, _)
variables(vt, t) ==
  IF is_leaf(vt, t) THEN {vt[t].var}
  ELSE variables(vt, vt[t].left) \cup variables(vt, vt[t].right)

var_count(vt) == Cardinality(variables(vt, VtreeRoot(vt)))

LITERAL_IS_TRUE == 1
LITERAL_IS_FALSE == 0

\* ------------------------------------------------- structure (node model)
\* CircuitTerminal(index, vtree, var_index, var_value, parameter)
CircuitTerminal(index, t, var, value, par) ==
  [kind |-> "T", index |-> index, vtree |-> t, var_index |-> var,
   var_value |-> value, parameter |-> par, num_parents |-> 0, elements |-> <<>>]

increase_num_parents_by_one(c, n) ==
  [c EXCEPT !.nodes[n].num_parents = @ + 1]

decrease_num_parents_by_one(c, n) ==
  [c EXCEPT !.nodes[n].num_parents = @ - 1]

\* AndGate(prime, sub, parameter): the new element is the last of c.elems
AndGate(c, prime, sub, par) ==
  [increase_num_parents_by_one(increase_num_parents_by_one(c, prime), sub)
     EXCEPT !.elems = Append(@, [prime |-> prime, sub |-> sub, parameter |-> par,
                                 splittable_variables |-> {}, flag |-> FALSE,
                                 parent |-> 0])]

\* OrGate(index, vtree, elements): the new node is the last of c.nodes
OrGate(c, index, t, els) ==
  [c EXCEPT !.nodes = Append(@, [kind |-> "D", index |-> index, vtree |-> t,
                                  var_index |-> 0, var_value |-> 0, parameter |-> 0,
                                  num_parents |-> 0, elements |-> els]),
            !.elems = Tuple([e \in 1..Len(@) |->
                         IF \E i \in 1..Len(els) : els[i] = e
                         THEN [@[e] EXCEPT !.parent = Len(c.nodes) + 1] ELSE @[e]])]

\* element.prime = value / element.sub = value (property setters)
set_prime(c, e, value) ==
  IF value # 0
  THEN increase_num_parents_by_one([c EXCEPT !.elems[e].prime = value], value)
  ELSE [c EXCEPT !.elems[e].prime = value]

set_sub(c, e, value) ==
  IF value # 0
  THEN increase_num_parents_by_one([c EXCEPT !.elems[e].sub = value], value)
  ELSE [c EXCEPT !.elems[e].sub = value]

remove_splittable_variable(c, e, v) ==
  [c EXCEPT !.elems[e].splittable_variables = @ \ {v}]

\* OrGate.add_element(element)
add_element(c, n, e) ==
  [c EXCEPT !.nodes[n].elements = Append(@, e), !.elems[e].parent = n]

\* OrGate.remove_element(i), i counted from 0 as in the code
remove_element(c, n, i) ==
  [c EXCEPT !.nodes[n].elements =
      Tuple([k \in 1..(Len(@) - 1) |-> IF k <= i THEN @[k] ELSE @[k + 1]])]

set_splittable(c, e, s) == [c EXCEPT !.elems[e].splittable_variables = s]

\* rand_gen.random_sample(): the seeded generator is a counter
random_sample(c) == c.rnd
advance(c) == [c EXCEPT !.rnd = @ + 1]

\* ---------------------------------------------------------------- builder
EmptyCircuit(v) ==
  [vtree |-> v, num_variables |-> var_count(Vtrees[v]), largest_index |-> 0,
   nodes |-> <<>>, elems |-> <<>>, rnd |-> 2,
   terminal_nodes |-> Tuple([i \in 1..(2 * var_count(Vtrees[v])) |-> 0]),
   decision_nodes |-> <<>>, elements |-> <<>>, parameters |-> <<>>,
   covariance |-> <<>>, bias |-> 1, root |-> 0, err |-> "none", deepest |-> 0]
\* (covariance: None and the empty list both hold no matrix and are both <<>>;
\* deepest is a history variable: the largest current_depth with which the
\* last _split entered _copy_and_modify_element_for_split)

\* a new terminal stored at position pos of the terminal array
NewTerminal(c, t, var, value, pos) ==
  advance([c EXCEPT !.nodes = Append(@, CircuitTerminal(c.largest_index, t, var, value,
                                                         random_sample(c))),
                    !.terminal_nodes[pos] = Len(c.nodes) + 1,
                    !.largest_index = @ + 1])

VtreeOf(c) == Vtrees[c.vtree]

RECURSIVE generate_all_terminal_nodes(_, _)
generate_all_terminal_nodes(c, t) ==
  IF is_leaf(VtreeOf(c), t)
  THEN NewTerminal(NewTerminal(c, t, VtreeOf(c)[t].var, LITERAL_IS_TRUE, VtreeOf(c)[t].var),
                   t, VtreeOf(c)[t].var, LITERAL_IS_FALSE,
                   c.num_variables + VtreeOf(c)[t].var)
  ELSE generate_all_terminal_nodes(generate_all_terminal_nodes(c, VtreeOf(c)[t].left),
                                   VtreeOf(c)[t].right)

positive_terminal(c, v) == c.terminal_nodes[v]
negative_terminal(c, v) == c.terminal_nodes[c.num_variables + v]

\* elements.append(AndGate(prime, sub, torch.tensor(random_sample()))); r = [c, els]
NewElement(c, els, prime, sub) ==
  [c |-> advance(AndGate(c, prime, sub, random_sample(c))),
   els |-> Append(els, Len(c.elems) + 1)]

\* the same with a freshly built sub-circuit s = [c, node] as the sub / as the prime
NewElementOverSub(s, els, prime) == NewElement(s.c, els, prime, s.node)
NewElementOverPrime(s, els, sub) == NewElement(s.c, els, s.node, sub)
NewElementOverBoth(sp, ss) == NewElement(ss.c, <<>>, sp.node, ss.node)

\* for element in elements: element.splittable_variables = deepcopy(...)
SetAllSplittable(r, s) ==
  [r EXCEPT !.c.elems = Tuple([e \in 1..Len(@) |->
      IF \E i \in 1..Len(r.els) : r.els[i] = e
      THEN [@[e] EXCEPT !.splittable_variables = s] ELSE @[e]])]

\* root = OrGate(self._largest_index, vtree, elements); self._largest_index += 1
NewRoot(r, t) ==
  [c |-> [OrGate(r.c, r.c.largest_index, t, r.els) EXCEPT !.largest_index = @ + 1],
   node |-> Len(r.c.nodes) + 1]

RECURSIVE new_regression_psdd(_, _)

\* the four elements over two leaves
LeafLeafElements(c, pv, sv) ==
  NewElement(
    NewElement(
      NewElement(
        NewElement(c, <<>>, positive_terminal(c, pv), positive_terminal(c, sv)).c,
        <<Len(c.elems) + 1>>, positive_terminal(c, pv), negative_terminal(c, sv)).c,
      <<Len(c.elems) + 1, Len(c.elems) + 2>>,
      negative_terminal(c, pv), positive_terminal(c, sv)).c,
    <<Len(c.elems) + 1, Len(c.elems) + 2, Len(c.elems) + 3>>,
    negative_terminal(c, pv), negative_terminal(c, sv))

\* the second element shares the sub-circuit of the first
SecondOverSub_shared(r1, right_vtree, prime) ==
  NewElement(r1.c, r1.els, prime, r1.c.elems[r1.els[1]].sub)

\* the second element of a leaf/sub-circuit pair, after the first (r1)
SecondOverSub(r1, right_vtree, prime) ==
  NewElementOverSub(new_regression_psdd(r1.c, right_vtree), r1.els, prime)

SecondOverPrime(r1, left_vtree, sub) ==
  NewElementOverPrime(new_regression_psdd(r1.c, left_vtree), r1.els, sub)

\* the single element over two sub-circuits, after the left one (sp)
ElementOverBoth(sp, right_vtree) ==
  NewElementOverBoth(sp, new_regression_psdd(sp.c, right_vtree))

psdd_elements(c, vt, t, left_vtree, right_vtree) ==
  IF is_leaf(vt, left_vtree) /\ is_leaf(vt, right_vtree)
  THEN LeafLeafElements(c, vt[left_vtree].var, vt[right_vtree].var)
  ELSE IF is_leaf(vt, left_vtree)
  THEN SetAllSplittable(
         SecondOverSub(
           NewElementOverSub(new_regression_psdd(c, right_vtree), <<>>,
                             positive_terminal(c, vt[left_vtree].var)),
           right_vtree, negative_terminal(c, vt[left_vtree].var)),
         variables(vt, right_vtree))
  ELSE IF is_leaf(vt, right_vtree)
  THEN SetAllSplittable(
         SecondOverPrime(
           NewElementOverPrime(new_regression_psdd(c, left_vtree), <<>>,
                               positive_terminal(c, vt[right_vtree].var)),
           left_vtree, negative_terminal(c, vt[right_vtree].var)),
         variables(vt, left_vtree))
  ELSE SetAllSplittable(ElementOverBoth(new_regression_psdd(c, left_vtree), right_vtree),
                        variables(vt, t))

new_regression_psdd(c, t) ==
  NewRoot(psdd_elements(c, VtreeOf(c), t, VtreeOf(c)[t].left, VtreeOf(c)[t].right), t)

\* ------------------------------------------------------ structural mutator
Raise(c, msg) == [c EXCEPT !.err = msg]
Failed(c) == c.err # "none"

node_variables(c, n) == variables(VtreeOf(c), c.nodes[n].vtree)
prime_of(c, e) == c.elems[e].prime
sub_of(c, e) == c.elems[e].sub

\* the new gate takes the largest index as it is
NewGate_reusing_index(c, t, els) ==
  [c |-> OrGate(c, c.largest_index, t, els), node |-> Len(c.nodes) + 1]

\* self._largest_index += 1; OrGate(self._largest_index, vtree, elements)
NewGate(c, t, els) ==
  [c |-> OrGate([c EXCEPT !.largest_index = @ + 1], c.largest_index + 1, t, els),
   node |-> Len(c.nodes) + 1]

\* `if original_node.num_parents > 0` after the decrement: other parents remain
has_other_parents_never(c, node) == FALSE

has_other_parents(c, node) == c.nodes[node].num_parents > 0

RECURSIVE copy_and_modify_element_for_split(_, _, _, _, _)
RECURSIVE copy_and_modify_node_for_split(_, _, _, _, _)
RECURSIVE copy_and_modify_node_loop(_, _, _, _, _, _, _)
RECURSIVE deep_copy_node(_, _, _, _, _)
RECURSIVE deep_copy_node_loop(_, _, _, _, _, _, _)
RECURSIVE deep_copy_element(_, _, _, _, _)

\* ---- _deep_copy_element
\* AndGate(prime, sub, element.parameter.clone()) with the splittable set of element
CopiedElement(c, element, prime, sub) ==
  [c |-> set_splittable(AndGate(c, prime, sub, c.elems[element].parameter),
                        Len(c.elems) + 1, c.elems[element].splittable_variables),
   element |-> Len(c.elems) + 1]

\* rp, rs = [c, node]: the deep copy of the prime, of the sub
CopiedOverPrime(rp, element) ==
  IF Failed(rp.c) THEN [c |-> rp.c, element |-> 0]
  ELSE CopiedElement(rp.c, element, rp.node, sub_of(rp.c, element))

CopiedOverSub(rs, element, prime) ==
  IF Failed(rs.c) THEN [c |-> rs.c, element |-> 0]
  ELSE CopiedElement(rs.c, element, prime, rs.node)

CopiedOverBoth(rp, element, variable, current_depth, max_depth) ==
  IF Failed(rp.c) THEN [c |-> rp.c, element |-> 0]
  ELSE CopiedOverSub(deep_copy_node(rp.c, sub_of(rp.c, element), variable,
                                    current_depth, max_depth),
                     element, rp.node)

deep_copy_element(c, element, variable, current_depth, max_depth) ==
  IF current_depth >= max_depth
  THEN IF variable \in node_variables(c, prime_of(c, element))
       THEN CopiedOverPrime(deep_copy_node(c, prime_of(c, element), variable,
                                           current_depth, max_depth), element)
       ELSE IF variable \in node_variables(c, sub_of(c, element))
       THEN CopiedOverSub(deep_copy_node(c, sub_of(c, element), variable,
                                         current_depth, max_depth),
                          element, prime_of(c, element))
       ELSE CopiedElement(c, element, prime_of(c, element), sub_of(c, element))
  ELSE CopiedOverBoth(deep_copy_node(c, prime_of(c, element), variable,
                                     current_depth, max_depth),
                      element, variable, current_depth, max_depth)

\* ---- _deep_copy_node
\* one turn of the for loop over node.elements, r = [c, element] the copy made
DeepCopyNext(r, node, i, copied_elements, variable, current_depth, max_depth) ==
  IF Failed(r.c) THEN [c |-> r.c, copied_elements |-> copied_elements]
  ELSE deep_copy_node_loop(r.c, node, i + 1, Append(copied_elements, r.element),
                           variable, current_depth, max_depth)

deep_copy_node_loop(c, node, i, copied_elements, variable, current_depth, max_depth) ==
  IF i > Len(c.nodes[node].elements)
  THEN [c |-> c, copied_elements |-> copied_elements]
  ELSE DeepCopyNext(deep_copy_element(c, c.nodes[node].elements[i], variable,
                                      current_depth + 1, max_depth),
                    node, i, copied_elements, variable, current_depth, max_depth)

DeepCopyGate(r, node) ==
  IF Failed(r.c) THEN [c |-> r.c, node |-> 0]
  ELSE NewGate(r.c, r.c.nodes[node].vtree, r.copied_elements)

deep_copy_node(c, node, variable, current_depth, max_depth) ==
  IF c.nodes[node].kind = "T"
  THEN [c |-> c, node |-> node]
  ELSE IF Len(c.nodes[node].elements) = 0
  THEN [c |-> Raise(c, "Decision nodes should have at least one elements."), node |-> 0]
  ELSE DeepCopyGate(deep_copy_node_loop(c, node, 1, <<>>, variable, current_depth, max_depth),
                    node)

\* ---- _copy_and_modify_node_for_split
NoNode(c) == [c |-> c, original |-> 0, copied |-> 0]

\* one turn of the while loop, r = [c, original, copied] of the element at i (from 0)
ModifyNext(r, node, i, copied_elements, variable, current_depth, max_depth) ==
  IF Failed(r.c) THEN [c |-> r.c, copied_elements |-> copied_elements]
  ELSE copy_and_modify_node_loop(
         IF r.original = 0 THEN remove_element(r.c, node, i) ELSE r.c,
         node,
         IF r.original = 0 THEN i ELSE i + 1,
         IF r.copied # 0 THEN Append(copied_elements, r.copied) ELSE copied_elements,
         variable, current_depth, max_depth)

copy_and_modify_node_loop(c, node, i, copied_elements, variable, current_depth, max_depth) ==
  IF i >= Len(c.nodes[node].elements)
  THEN [c |-> c, copied_elements |-> copied_elements]
  ELSE ModifyNext(copy_and_modify_element_for_split(c, c.nodes[node].elements[i + 1],
                                                    variable, current_depth + 1, max_depth),
                  node, i, copied_elements, variable, current_depth, max_depth)

\* the node that stays with the original element: None when it lost every element
RemainingNode(c, node) == IF Len(c.nodes[node].elements) = 0 THEN 0 ELSE node

WithCopiedGate(g, node) ==
  [c |-> g.c, original |-> RemainingNode(g.c, node), copied |-> g.node]

\* rl = [c, copied_elements]: the result of the while loop over `node`
ModifiedGate(rl, node) ==
  IF Failed(rl.c) THEN NoNode(rl.c)
  ELSE IF Len(rl.copied_elements) = 0
  THEN [c |-> rl.c, original |-> RemainingNode(rl.c, node), copied |-> 0]
  ELSE WithCopiedGate(NewGate(rl.c, rl.c.nodes[node].vtree, rl.copied_elements), node)

\* rd = [c, node]: the node to walk, the original or its deep copy
ModifyGate(rd, variable, current_depth, max_depth) ==
  IF Failed(rd.c) THEN NoNode(rd.c)
  ELSE ModifiedGate(copy_and_modify_node_loop(rd.c, rd.node, 0, <<>>, variable,
                                              current_depth, max_depth),
                    rd.node)

\* the negative literal of the variable stays with the original as well
ModifyTerminal_keeping_negative(c, original_node, variable) ==
  IF c.nodes[original_node].var_index = variable
     /\ c.nodes[original_node].var_value = LITERAL_IS_TRUE
  THEN [c |-> c, original |-> original_node, copied |-> 0]
  ELSE [c |-> c, original |-> original_node, copied |-> original_node]

ModifyTerminal(c, original_node, variable) ==
  IF c.nodes[original_node].var_index = variable
  THEN IF c.nodes[original_node].var_value = LITERAL_IS_TRUE
       THEN [c |-> c, original |-> original_node, copied |-> 0]
       ELSE [c |-> c, original |-> 0, copied |-> negative_terminal(c, variable)]
  ELSE [c |-> c, original |-> original_node, copied |-> original_node]

\* c: after original_node.decrease_num_parents_by_one()
ModifyNode(c, original_node, variable, current_depth, max_depth) ==
  IF c.nodes[original_node].kind = "T"
  THEN ModifyTerminal(c, original_node, variable)
  ELSE ModifyGate(IF has_other_parents(c, original_node)
                  THEN deep_copy_node(c, original_node, variable, current_depth, max_depth)
                  ELSE [c |-> c, node |-> original_node],
                  variable, current_depth, max_depth)

copy_and_modify_node_for_split(c, original_node, variable, current_depth, max_depth) ==
  IF c.nodes[original_node].num_parents = 0
  THEN NoNode(Raise(c, "Some node does not have a parent."))
  ELSE ModifyNode(decrease_num_parents_by_one(c, original_node), original_node,
                  variable, current_depth, max_depth)

\* ---- _copy_and_modify_element_for_split
Untouched(c, n) == [c |-> c, original |-> n, copied |-> n]

\* the children are assigned without counting the element as their parent
Reattach_uncounted(k, original_element, original_prime, original_sub) ==
  IF original_prime # 0 /\ original_sub # 0
  THEN [c |-> [k.c EXCEPT !.elems[original_element].prime = original_prime,
                          !.elems[original_element].sub = original_sub],
        original |-> original_element, copied |-> k.copied]
  ELSE [c |-> k.c, original |-> 0, copied |-> k.copied]

\* k = [c, copied]: original_element.prime/sub = ... or original_element = None
Reattach(k, original_element, original_prime, original_sub) ==
  IF original_prime # 0 /\ original_sub # 0
  THEN [c |-> set_sub(set_prime(k.c, original_element, original_prime),
                      original_element, original_sub),
        original |-> original_element, copied |-> k.copied]
  ELSE [c |-> k.c, original |-> 0, copied |-> k.copied]

\* copied_element = AndGate(copied_prime, copied_sub, deepcopy(parameter)) or None
CopyElement(c, original_element, copied_prime, copied_sub) ==
  IF copied_prime # 0 /\ copied_sub # 0
  THEN [c |-> set_splittable(AndGate(c, copied_prime, copied_sub,
                                     c.elems[original_element].parameter),
                             Len(c.elems) + 1,
                             c.elems[original_element].splittable_variables),
        copied |-> Len(c.elems) + 1]
  ELSE [c |-> c, copied |-> 0]

\* rp, rs = [c, original, copied] of the prime and of the sub
ModifiedElement(rp, rs, original_element) ==
  IF Failed(rs.c) THEN NoNode(rs.c)
  ELSE Reattach(CopyElement(rs.c, original_element, rp.copied, rs.copied),
                original_element, rp.original, rs.original)

ModifySub(rp, original_element, variable, current_depth, max_depth) ==
  IF Failed(rp.c) THEN NoNode(rp.c)
  ELSE ModifiedElement(
         rp,
         IF current_depth >= max_depth
            /\ (variable \in node_variables(rp.c, prime_of(rp.c, original_element))
                \/ variable \notin node_variables(rp.c, sub_of(rp.c, original_element)))
         THEN Untouched(rp.c, sub_of(rp.c, original_element))
         ELSE copy_and_modify_node_for_split(rp.c, sub_of(rp.c, original_element), variable,
                                             current_depth, max_depth),
         original_element)

\* the prime is walked whatever the depth
ModifyPrime_beyond_budget(c, original_element, variable, current_depth, max_depth) ==
  ModifySub(copy_and_modify_node_for_split(c, prime_of(c, original_element), variable,
                                           current_depth, max_depth),
            original_element, variable, current_depth, max_depth)

\* c: after original_element.flag = True and remove_splittable_variable(variable)
ModifyPrime(c, original_element, variable, current_depth, max_depth) ==
  ModifySub(IF current_depth >= max_depth
               /\ variable \notin node_variables(c, prime_of(c, original_element))
            THEN Untouched(c, prime_of(c, original_element))
            ELSE copy_and_modify_node_for_split(c, prime_of(c, original_element), variable,
                                                current_depth, max_depth),
            original_element, variable, current_depth, max_depth)

\* the call is entered with current_depth
Entered(c, current_depth) ==
  [c EXCEPT !.deepest = IF current_depth > @ THEN current_depth ELSE @]

\* the walked element keeps the variable in its splittable set
copy_and_modify_element_keeping_variable(c, original_element, variable, current_depth, max_depth) ==
  ModifyPrime([Entered(c, current_depth) EXCEPT !.elems[original_element].flag = TRUE],
              original_element, variable, current_depth, max_depth)

copy_and_modify_element_for_split(c, original_element, variable, current_depth, max_depth) ==
  ModifyPrime(remove_splittable_variable(
                [Entered(c, current_depth) EXCEPT !.elems[original_element].flag = TRUE],
                original_element, variable),
              original_element, variable, current_depth, max_depth)

\* ---- _split
\* r = [c, original, copied] of the split element; the copy is built but not added
SplitResult_without_add(r, parent) ==
  IF Failed(r.c) THEN r.c
  ELSE IF r.original = 0 \/ r.copied = 0
  THEN Raise(r.c, "Split elements become invalid.")
  ELSE r.c

SplitResult(r, parent) ==
  IF Failed(r.c) THEN r.c
  ELSE IF r.original = 0 \/ r.copied = 0
  THEN Raise(r.c, "Split elements become invalid.")
  ELSE add_element(r.c, parent, r.copied)

split(c, element_to_split, variable_to_split, depth) ==
  SplitResult(copy_and_modify_element_for_split([c EXCEPT !.deepest = 0], element_to_split,
                                                variable_to_split, 0, depth),
              c.elems[element_to_split].parent)

\* ------------------------------------------------ element list, parameters
Range(q) == {q[i] : i \in 1..Len(q)}
IsOrGate(c, n) == c.nodes[n].kind = "D"

\* a column of the parameters matrix: the value and the object it belongs to
Column(kind, id, value) == [kind |-> kind, id |-> id, value |-> value]

\* st = [c, decision_nodes, elements, decision_node_indices, unvisited]
\* `if isinstance(child, OrGate) and child.index not in decision_node_indices`
Discover(st, child) ==
  IF IsOrGate(st.c, child) /\ st.c.nodes[child].index \notin st.decision_node_indices
  THEN [st EXCEPT !.decision_node_indices = @ \cup {st.c.nodes[child].index},
                  !.decision_nodes = Append(@, child),
                  !.unvisited = Append(@, child)]
  ELSE st

SerializeElement(st, element) ==
  Discover(Discover([st EXCEPT !.elements = Append(@, element),
                               !.c.elems[element].flag = FALSE],
                    prime_of(st.c, element)),
           sub_of(st.c, element))

RECURSIVE serialize_elements(_, _, _)
\* the for loop over current.elements[i..]
serialize_elements(st, current, i) ==
  IF i > Len(st.c.nodes[current].elements) THEN st
  ELSE serialize_elements(SerializeElement(st, st.c.nodes[current].elements[i]),
                          current, i + 1)

RECURSIVE serialize_loop(_)
serialize_loop(st) ==
  IF Len(st.unvisited) = 0 THEN st
  ELSE serialize_loop(serialize_elements([st EXCEPT !.unvisited = Tail(@)],
                                         Head(st.unvisited), 1))

\* the parameters matrix: bias, terminals, elements
ParameterColumns(c, elements) ==
  <<Column("B", 0, c.bias)>>
  \o Tuple([i \in 1..Len(c.terminal_nodes) |->
        Column("T", c.terminal_nodes[i], c.nodes[c.terminal_nodes[i]].parameter)])
  \o Tuple([i \in 1..Len(elements) |-> Column("E", elements[i], c.elems[elements[i]].parameter)])

\* the element list is rebuilt, the parameters matrix is not
Serialized_stale_parameters(st) ==
  [st.c EXCEPT !.decision_nodes = st.decision_nodes, !.elements = st.elements]

Serialized(st) ==
  [st.c EXCEPT !.decision_nodes = st.decision_nodes,
               !.elements = st.elements,
               !.parameters = ParameterColumns(st.c, st.elements)]

serialize(c) ==
  Serialized(serialize_loop([c |-> c, decision_nodes |-> <<c.root>>, elements |-> <<>>,
                             decision_node_indices |-> {c.nodes[c.root].index},
                             unvisited |-> <<c.root>>]))

WithRoot(r) == [r.c EXCEPT !.root = r.node]

\* RegressionCircuit(vtree): __init__ without a circuit file
NewCircuit(v) ==
  serialize(WithRoot(new_regression_psdd(
    generate_all_terminal_nodes(EmptyCircuit(v), VtreeRoot(Vtrees[v])),
    VtreeRoot(Vtrees[v]))))

\* --------------------------------------------------------------- features
\* elements that get a feature in calculate_features: those of the gates in
\* the decision node list
FeaturedElements(c) ==
  UNION {Range(c.nodes[c.decision_nodes[i]].elements) : i \in 1..Len(c.decision_nodes)}

\* the columns of calculate_features(images): one row of the transposed stack
calculate_features(c) ==
  <<[kind |-> "B", id |-> 0]>>
  \o Tuple([i \in 1..Len(c.terminal_nodes) |-> [kind |-> "T", id |-> c.terminal_nodes[i]]])
  \o Tuple([i \in 1..Len(c.elements) |-> [kind |-> "E", id |-> c.elements[i]]])

\* --------------------------------------------------------- split selector
\* The data set enters the selector through three quantities per element
\* column: its gradient variance (ovar), whether its summed activation
\* exceeds 25 (support), and the after-split variance of each variable (avar).
\* A data set is given as the set of its picks [element, variable, ovar, avar]:
\* the picked element columns have support and gradient variance ovar (the
\* others none and 0); the picked variable has after-split variance avar and
\* every other variable a larger one.
support(data) == {p.element : p \in data}
ovar(data, e) == IF e \in support(data) THEN (CHOOSE p \in data : p.element = e).ovar ELSE 0
avar(data, e, v) ==
  IF \E p \in data : p.element = e /\ p.variable = v
  THEN (CHOOSE p \in data : p.element = e).avar ELSE MaxVariance + 1

min_candidate_list == 5000
Infinity == MaxVariance + 2      \* float("inf"): above every variance

Min(a, b) == IF a < b THEN a ELSE b
Least(S) == CHOOSE x \in S : \A y \in S : x <= y

RECURSIVE Ascending(_)
\* iteration over a set of small integers
Ascending(S) == IF S = {} THEN <<>> ELSE <<Least(S)>> \o Ascending(S \ {Least(S)})

\* sorted(zip(elements, variance, columns), reverse=True, key=variance): stable
RECURSIVE SortedCandidates(_, _, _)
SortedCandidates(c, data, level) ==
  IF level < 0 THEN <<>>
  ELSE SelectSeq(c.elements, LAMBDA e : ovar(data, e) = level)
       \o SortedCandidates(c, data, level - 1)

InsertByAmount(sorted, x) ==
  SelectSeq(sorted, LAMBDA y : y.amount <= x.amount) \o <<x>>
  \o SelectSeq(sorted, LAMBDA y : y.amount > x.amount)

\* selected.sort(key=lambda x: x[1]): stable
RECURSIVE SortByAmount(_)
SortByAmount(q) ==
  IF Len(q) <= 1 THEN q
  ELSE InsertByAmount(SortByAmount(SubSeq(q, 1, Len(q) - 1)), q[Len(q)])

\* the loop over element_to_split.splittable_variables; acc = [variable, variance]
RECURSIVE variable_loop(_, _, _, _)
variable_loop(data, element, vs, acc) ==
  IF Len(vs) = 0 THEN acc
  ELSE variable_loop(data, element, Tail(vs),
                     IF avar(data, element, Head(vs)) < acc.variance
                     THEN [variable |-> Head(vs), variance |-> avar(data, element, Head(vs))]
                     ELSE acc)

\* the list is never capped
update_selected_uncapped(selected, entry, num_splits) ==
  [selected |-> SortByAmount(Append(selected, entry)), err |-> "none"]

\* the bounded list update (the body of `if min_after_split_variance < original_variance`)
update_selected(selected, entry, num_splits) ==
  IF Len(selected) = num_splits
  THEN IF Len(selected) = 0
       THEN [selected |-> selected, err |-> "IndexError"]       \* selected[0] on an empty list
       ELSE IF entry.amount < selected[1].amount
       THEN [selected |-> SortByAmount(Append(Tail(selected), entry)), err |-> "none"]
       ELSE [selected |-> selected, err |-> "none"]
  ELSE [selected |-> SortByAmount(Append(selected, entry)), err |-> "none"]

RECURSIVE candidate_loop(_, _, _, _, _, _)

\* u = [selected, err]: the list after the candidate at k was entered
NextCandidate(u, c, data, candidates, k, num_splits) ==
  IF u.err # "none" THEN u
  ELSE candidate_loop(c, data, candidates, k + 1, u.selected, num_splits)

\* best = [variable, variance]: the result of the loop over the variables
Consider(best, c, data, candidates, k, selected, num_splits) ==
  IF /\ Cardinality(c.elems[candidates[k]].splittable_variables) > 0
     /\ candidates[k] \in support(data)
     /\ best.variance < ovar(data, candidates[k])
  THEN NextCandidate(update_selected(selected,
                                     [element |-> candidates[k], variable |-> best.variable,
                                      amount |-> best.variance - ovar(data, candidates[k])],
                                     num_splits),
                     c, data, candidates, k, num_splits)
  ELSE candidate_loop(c, data, candidates, k + 1, selected, num_splits)

candidate_loop(c, data, candidates, k, selected, num_splits) ==
  IF k > Len(candidates) THEN [selected |-> selected, err |-> "none"]
  ELSE Consider(variable_loop(data, candidates[k],
                              Ascending(c.elems[candidates[k]].splittable_variables),
                              [variable |-> 0, variance |-> Infinity]),
                c, data, candidates, k, selected, num_splits)

\* splits = [x[0] for x in selected]
Selection(r) ==
  [splits |-> Tuple([i \in 1..Len(r.selected) |->
                 [element |-> r.selected[i].element, variable |-> r.selected[i].variable]]),
   err |-> r.err]

Candidates(sorted) == SubSeq(sorted, 1, Min(min_candidate_list, Len(sorted)))

\* _select_element_and_variable_to_split(data, num_splits, alpha)
select_element_and_variable_to_split(c, data, num_splits) ==
  Selection(candidate_loop(c, data, Candidates(SortedCandidates(c, data, MaxVariance)),
                           1, <<>>, num_splits))

\* ------------------------------------------------------- change_structure
RECURSIVE apply_splits_whatever_the_flag(_, _, _, _)
\* every selected split is applied
apply_splits_whatever_the_flag(c, splits, k, depth) ==
  IF k > Len(splits) \/ Failed(c) THEN c
  ELSE apply_splits_whatever_the_flag(split(c, splits[k].element, splits[k].variable, depth),
                                      splits, k + 1, depth)

RECURSIVE apply_splits(_, _, _, _)
\* the for loop over the selected splits; an error ends the call
apply_splits(c, splits, k, depth) ==
  IF k > Len(splits) \/ Failed(c) THEN c
  ELSE apply_splits(IF ~c.elems[splits[k].element].flag
                    THEN split(c, splits[k].element, splits[k].variable, depth)
                    ELSE c,
                    splits, k + 1, depth)

\* predict(data.features): torch.mm needs matching widths
predict_fails(c, feats) == Len(feats) # Len(c.parameters)

\* self._serialize() at the end of the round, not reached after an error
Resynchronized(c) == IF Failed(c) THEN c ELSE serialize(c)

\* r = [splits, err]: the result of the selector
Restructured(c, r, depth) ==
  IF r.err # "none" THEN Raise(c, r.err)
  ELSE Resynchronized(apply_splits(c, r.splits, 1, depth))

change_structure(c, feats, data, depth, num_splits) ==
  IF predict_fails(c, feats) THEN Raise(c, "RuntimeError")
  ELSE Restructured(c, select_element_and_variable_to_split(c, data, num_splits), depth)

\* ------------------------------------------------------------ reachability
Children(c, e) == {c.elems[e].prime, c.elems[e].sub}
ElementsOf(c, ns) == UNION {Range(c.nodes[n].elements) : n \in ns}
ChildrenOf(c, ns) == UNION {Children(c, e) : e \in ElementsOf(c, ns)}

RECURSIVE ReachFrom(_, _, _)
\* the nodes reachable from the nodes of `frontier` (seen: already reached)
ReachFrom(c, frontier, seen) ==
  IF frontier = {} THEN seen
  ELSE ReachFrom(c, ChildrenOf(c, frontier) \ (seen \cup frontier), seen \cup frontier)

ReachNodes(c) == ReachFrom(c, {c.root}, {})
ReachGates(c) == {n \in ReachNodes(c) : IsOrGate(c, n)}
ReachElems(c) == ElementsOf(c, ReachGates(c))

\* ------------------------------------------------------------------ data
Picks(c) ==
  {[element |-> e, variable |-> v, ovar |-> o, avar |-> a] :
     e \in Range(c.elements), v \in 1..c.num_variables,
     o \in 1..MaxVariance, a \in 0..MaxVariance}

\* the sets of `smaller` and their extensions by one pick of a later element
Extended(smaller, picks) ==
  smaller \cup
  UNION {{P \cup {p} : p \in {q \in picks : \A r \in P : r.element < q.element}} :
         P \in smaller}

\* the data sets with at most k picked columns, built by ascending element
RECURSIVE PickSetsUpTo(_, _)
PickSetsUpTo(picks, k) ==
  IF k = 0 THEN {{}} ELSE Extended(PickSetsUpTo(picks, k - 1), picks)

\* data sets for the selector, with at most k supported columns
PickSets(c, k) ==
  PickSetsUpTo({p \in Picks(c) : p.variable \in c.elems[p.element].splittable_variables}, k)

\* data sets in which every picked column qualifies for a split
QualifyingPickSets(c) ==
  PickSetsUpTo({p \in Picks(c) : /\ p.variable \in c.elems[p.element].splittable_variables
                                  /\ p.avar = 0},
               MaxPicks)

\* ----------------------------------------------------------- specification
Call(op, element, variable, depth, num_splits, data, splits) ==
  [op |-> op, element |-> element, variable |-> variable, depth |-> depth,
   num_splits |-> num_splits, data |-> data, splits |-> splits]

\* the element list, the flags and the parameters are those of a fresh
\* traversal: the state every public call leaves and expects
Synchronized(c) == c = serialize(c)

NotLearning == [pc |-> "idle"]
NoFile == [lines |-> <<>>, edits |-> 0]

Init ==
  /\ \E v \in 1..Len(Vtrees) : circuit = NewCircuit(v)
  /\ features = calculate_features(circuit)
  /\ prev = circuit
  /\ last = Call("init", 0, 0, 0, 0, {}, <<>>)
  /\ nops = 0
  /\ learner = NotLearning
  /\ file = NoFile

\* the last call asked for a split on a variable that was not splittable on
\* the element; nothing is called on the circuit after such a request
Unsplittable ==
  /\ last.op = "split"
  /\ last.variable \notin prev.elems[last.element].splittable_variables

\* circuit._split(element, variable, depth) with a splittable variable
Split ==
  /\ nops < MaxOps
  /\ ~Failed(circuit)
  /\ ~Unsplittable
  /\ \E e \in ReachElems(circuit), d \in 0..MaxDepth :
       \E v \in circuit.elems[e].splittable_variables :
         /\ circuit' = split(circuit, e, v, d)
         /\ last' = Call("split", e, v, d, 0, {}, <<>>)
  /\ prev' = circuit
  /\ nops' = nops + 1
  /\ UNCHANGED <<features, learner, file>>

\* circuit._split(element, variable, depth) with a variable that is not splittable
SplitUnsplittable ==
  /\ nops < MaxOps
  /\ ~Failed(circuit)
  /\ ~Unsplittable
  /\ \E e \in ReachElems(circuit), d \in 0..MaxDepth :
       \E v \in (1..circuit.num_variables) \ circuit.elems[e].splittable_variables :
         /\ circuit' = split(circuit, e, v, d)
         /\ last' = Call("split", e, v, d, 0, {}, <<>>)
  /\ prev' = circuit
  /\ nops' = nops + 1
  /\ UNCHANGED <<features, learner, file>>

\* r = [splits, err]: what the selector returned for data P and num_splits k
Selected(P, k, r) ==
  /\ circuit' = IF r.err # "none" THEN Raise(circuit, r.err) ELSE circuit
  /\ last' = Call("select", 0, 0, 0, k, P, r.splits)

\* circuit._select_element_and_variable_to_split(data, num_splits, alpha); the
\* data of a refined circuit has one supported column
Select ==
  /\ nops < MaxOps
  /\ last.op # "select"
  /\ ~Failed(circuit)
  /\ Synchronized(circuit)
  /\ \E P \in PickSets(circuit, IF nops = 0 THEN MaxSelectPicks ELSE 1),
        k \in 0..MaxNumSplits :
       Selected(P, k, select_element_and_variable_to_split(circuit, P, k))
  /\ prev' = circuit
  /\ nops' = nops + 1
  /\ UNCHANGED <<features, learner, file>>

\* circuit.change_structure(data, depth, num_splits, alpha)
ChangeStructure ==
  /\ nops < MaxRounds
  /\ ~Failed(circuit)
  /\ Synchronized(circuit)
  /\ \E P \in QualifyingPickSets(circuit), d \in 0..MaxDepth, k \in 0..MaxNumSplits :
       /\ circuit' = change_structure(circuit, calculate_features(circuit), P, d, k)
       /\ last' = Call("change_structure", 0, 0, d, k, P,
                       select_element_and_variable_to_split(circuit, P, k).splits)
  /\ prev' = circuit
  /\ nops' = nops + 1
  /\ UNCHANGED <<features, learner, file>>

\* splits and structure rounds
Next == Split \/ ChangeStructure

Spec == Init /\ [][Next]_vars

\* split requests, splittable or not
NextRequest == Split \/ SplitUnsplittable

SpecRequest == Init /\ [][NextRequest]_vars

\* the selector on built and on refined circuits
NextSelect == ChangeStructure \/ Select

SpecSelect == Init /\ [][NextSelect]_vars

\* -------------------------------------------------------------- save, load
\* A circuit file is the sequence of its lines after the comment lines and
\* the "Regression Circuit" line.  A line is a record: T/F lines hold index,
\* vtree, var and parameter; a D line holds index, vtree and its elements
\* (prime index, sub index, parameter); the B line holds the bias; a V line
\* holds `count` values (all of them `value`).
TerminalLine(c, n) ==
  [tag |-> IF c.nodes[n].var_value = LITERAL_IS_TRUE THEN "T" ELSE "F",
   index |-> c.nodes[n].index, vtree |-> c.nodes[n].vtree,
   var |-> c.nodes[n].var_index, parameter |-> c.nodes[n].parameter]

DecisionLine(c, n) ==
  [tag |-> "D", index |-> c.nodes[n].index, vtree |-> c.nodes[n].vtree,
   elements |-> Tuple([i \in 1..Len(c.nodes[n].elements) |->
                   [prime |-> c.nodes[c.elems[c.nodes[n].elements[i]].prime].index,
                    sub |-> c.nodes[c.elems[c.nodes[n].elements[i]].sub].index,
                    parameter |-> c.elems[c.nodes[n].elements[i]].parameter]])]

\* covMatrix.flatten(): size * size values
CovarianceLine(m) == [tag |-> "V", count |-> m.size * m.size, value |-> m.value]

Reversed(q) == Tuple([i \in 1..Len(q) |-> q[Len(q) + 1 - i]])

\* the decision nodes are written in the order of the list
DecisionLines_in_list_order(c) ==
  Tuple([i \in 1..Len(c.decision_nodes) |-> DecisionLine(c, c.decision_nodes[i])])

\* `for decision_node in reversed(self._decision_nodes): decision_node.save(f)`
DecisionLines(c) ==
  Tuple([i \in 1..Len(c.decision_nodes) |-> DecisionLine(c, Reversed(c.decision_nodes)[i])])

\* the lines save writes for a circuit whose lists are current
Lines(c) ==
  Tuple([i \in 1..Len(c.terminal_nodes) |-> TerminalLine(c, c.terminal_nodes[i])])
  \o DecisionLines(c)
  \o <<[tag |-> "B", bias |-> c.bias]>>
  \o Tuple([i \in 1..Len(c.covariance) |-> CovarianceLine(c.covariance[i])])

\* save(f): the circuit after the call (self._serialize()) and the lines written
save(c) == [c |-> serialize(c), lines |-> Lines(serialize(c))]

\* the loader: st = [c, nodes, pos]; nodes is the dict index -> (node, literals)
\* in insertion order, pos the line held in `line`
Tag(st, f) == IF st.pos > Len(f) THEN "" ELSE f[st.pos].tag
Has(nodes, index) == \E k \in 1..Len(nodes) : nodes[k].index = index
Get(nodes, index) == nodes[CHOOSE k \in 1..Len(nodes) : nodes[k].index = index]
Put(nodes, entry) ==
  IF Has(nodes, entry.index)
  THEN Tuple([k \in 1..Len(nodes) |-> IF nodes[k].index = entry.index THEN entry ELSE nodes[k]])
  ELSE Append(nodes, entry)
Max(a, b) == IF a > b THEN a ELSE b

\* one T or F line
ReadTerminal(st, line) ==
  [c |-> [st.c EXCEPT !.nodes = Append(@, CircuitTerminal(
                                   line.index, line.vtree, line.var,
                                   IF line.tag = "T" THEN LITERAL_IS_TRUE ELSE LITERAL_IS_FALSE,
                                   line.parameter)),
                      !.largest_index = Max(@, line.index)],
   nodes |-> Put(st.nodes, [index |-> line.index, node |-> Len(st.c.nodes) + 1,
                            literals |-> IF line.tag = "T" THEN {line.var} ELSE {0 - line.var}]),
   pos |-> st.pos + 1]

RECURSIVE ReadTerminals(_, _)
\* `while line[0] == "T" or line[0] == "F"`; line[0] of the empty line fails
ReadTerminals(st, f) ==
  IF Tag(st, f) = "" THEN [st EXCEPT !.c = Raise(@, "IndexError")]
  ELSE IF Tag(st, f) \notin {"T", "F"} THEN st
  ELSE ReadTerminals(ReadTerminal(st, f[st.pos]), f)

RECURSIVE SortedByVar(_, _, _, _)
\* the terminals with the given value, by ascending var_index from v on (stable)
SortedByVar(c, ns, value, v) ==
  IF v > c.num_variables THEN <<>>
  ELSE SelectSeq(ns, LAMBDA n : c.nodes[n].var_value = value /\ c.nodes[n].var_index = v)
       \o SortedByVar(c, ns, value, v + 1)

\* self._terminal_nodes.sort(key=lambda x: (-x.var_value, x.var_index))
SortedTerminals(c, ns) ==
  SortedByVar(c, ns, LITERAL_IS_TRUE, 1) \o SortedByVar(c, ns, LITERAL_IS_FALSE, 1)

\* the number of terminals is not checked
WithTerminals_unchecked(st) ==
  IF Failed(st.c) THEN st
  ELSE [st EXCEPT !.c.terminal_nodes =
                     SortedTerminals(st.c, Tuple([k \in 1..Len(st.nodes) |-> st.nodes[k].node]))]

\* self._terminal_nodes = ...; the check of their number
WithTerminals(st) ==
  IF Failed(st.c) THEN st
  ELSE IF Len(st.nodes) # 2 * st.c.num_variables
  THEN [st EXCEPT !.c = Raise([@ EXCEPT !.terminal_nodes =
                                   SortedTerminals(st.c, Tuple([k \in 1..Len(st.nodes) |-> st.nodes[k].node]))],
                              "ValueError")]
  ELSE [st EXCEPT !.c.terminal_nodes =
                     SortedTerminals(st.c, Tuple([k \in 1..Len(st.nodes) |-> st.nodes[k].node]))]

\* the variables v with v or -v in the set of literals
BothLiterals_either(literals) ==
  {v \in literals : v > 0} \cup {0 - v : v \in {w \in literals : w < 0}}

\* the variables v with v and -v in the set of literals
BothLiterals(literals) == {v \in literals : v > 0 /\ (0 - v) \in literals}

\* the element is built with the prime and the sub exchanged
ReadElement_exchanged(c, nodes, el) ==
  set_splittable(AndGate(c, Get(nodes, el.sub).node, Get(nodes, el.prime).node, el.parameter),
                 Len(c.elems) + 1,
                 BothLiterals(Get(nodes, el.prime).literals \cup Get(nodes, el.sub).literals))

\* one element of a D line: AndGate(nodes[prime][0], nodes[sub][0], parameter)
ReadElement(c, nodes, el) ==
  set_splittable(AndGate(c, Get(nodes, el.prime).node, Get(nodes, el.sub).node, el.parameter),
                 Len(c.elems) + 1,
                 BothLiterals(Get(nodes, el.prime).literals \cup Get(nodes, el.sub).literals))

RECURSIVE ReadElements(_, _, _, _)
\* the for loop over the elements of a D line from element i on
ReadElements(c, nodes, line, i) ==
  IF i > Len(line.elements) THEN c
  ELSE IF ~Has(nodes, line.elements[i].prime) \/ ~Has(nodes, line.elements[i].sub)
  THEN Raise(c, "KeyError")
  ELSE ReadElements(ReadElement(c, nodes, line.elements[i]), nodes, line, i + 1)

\* the literals of the elements of a D line
LineLiterals(nodes, line) ==
  UNION {Get(nodes, line.elements[i].prime).literals \cup Get(nodes, line.elements[i].sub).literals :
         i \in 1..Len(line.elements)}

\* c1: the circuit after the elements of the line were built on st.c
ReadGate(st, line, c1) ==
  IF Failed(c1) THEN [st EXCEPT !.c = c1]
  ELSE [c |-> [OrGate(c1, line.index, line.vtree,
                      Tuple([i \in 1..Len(line.elements) |-> Len(st.c.elems) + i]))
                 EXCEPT !.largest_index = Max(@, line.index),
                        !.root = Len(c1.nodes) + 1],
        nodes |-> Put(st.nodes, [index |-> line.index, node |-> Len(c1.nodes) + 1,
                                 literals |-> LineLiterals(st.nodes, line)]),
        pos |-> st.pos + 1]

RECURSIVE ReadDecisions(_, _)
\* `while line[0] == "D"`
ReadDecisions(st, f) ==
  IF Failed(st.c) THEN st
  ELSE IF Tag(st, f) = "" THEN [st EXCEPT !.c = Raise(@, "IndexError")]
  ELSE IF Tag(st, f) # "D" THEN st
  ELSE ReadDecisions(ReadGate(st, f[st.pos], ReadElements(st.c, st.nodes, f[st.pos], 1)), f)

\* the checks of the root and of the B line, the bias
ReadBias(st, f) ==
  IF Failed(st.c) THEN st
  ELSE IF st.c.root = 0 THEN [st EXCEPT !.c = Raise(@, "ValueError")]
  ELSE IF Tag(st, f) # "B" THEN [st EXCEPT !.c = Raise(@, "ValueError")]
  ELSE [st EXCEPT !.c.bias = f[st.pos].bias, !.pos = @ + 1]

IsSquare(n) == \E k \in 0..n : k * k = n
Sqrt(n) == CHOOSE k \in 0..n : k * k = n

RECURSIVE ReadCovariances_until_malformed(_, _, _)
\* a malformed V line ends the reading of the covariances
ReadCovariances_until_malformed(f, pos, covariances) ==
  IF pos > Len(f) THEN covariances
  ELSE IF f[pos].tag # "V" THEN covariances
  ELSE IF ~IsSquare(f[pos].count) THEN covariances
  ELSE ReadCovariances_until_malformed(
         f, pos + 1, Append(covariances, [size |-> Sqrt(f[pos].count), value |-> f[pos].value]))

RECURSIVE ReadCovariances(_, _, _)
\* `while line and line[0] == "V"`: a vector that is not square is reported and skipped
ReadCovariances(f, pos, covariances) ==
  IF pos > Len(f) THEN covariances
  ELSE IF f[pos].tag # "V" THEN covariances
  ELSE ReadCovariances(f, pos + 1,
                       IF IsSquare(f[pos].count)
                       THEN Append(covariances,
                                   [size |-> Sqrt(f[pos].count), value |-> f[pos].value])
                       ELSE covariances)

WithCovariances(st, f) ==
  IF Failed(st.c) THEN st.c
  ELSE [st.c EXCEPT !.covariance = ReadCovariances(f, st.pos, <<>>)]

\* self.load(circuit_file) on the circuit c that __init__ has set up
load(c, f) ==
  WithCovariances(
    ReadBias(ReadDecisions(WithTerminals(ReadTerminals([c |-> c, nodes |-> <<>>, pos |-> 1], f)),
                           f),
             f),
    f)

\* RegressionCircuit(vtree, circuit_file): load, then self._serialize()
LoadedCircuit(v, f) == Resynchronized(load(EmptyCircuit(v), f))

\* --------------------------------------------------------- learn_parameters
\* model.coef_ of fit number f: one coefficient per feature column
Coefficients(feats, f) == Tuple([k \in 1..Len(feats) |-> 10 * (f + 1) + k])

\* model.sigma_: the covariance of the coefficients, width x width
Sigma(feats, f) == [size |-> Len(feats), value |-> f]

BayesianSolvers == {"bayesian-ridge", "bayesian-ard"}
Solvers == {"auto"} \cup BayesianSolvers

RECURSIVE record_terminals(_, _, _)
\* self._terminal_nodes[i].parameter = self._parameters[:, i + 1]
record_terminals(c, parameters, i) ==
  IF i >= Len(c.terminal_nodes) THEN c
  ELSE IF i + 2 > Len(parameters) THEN Raise(c, "IndexError")
  ELSE record_terminals([c EXCEPT !.nodes[c.terminal_nodes[i + 1]].parameter = parameters[i + 2]],
                        parameters, i + 1)

RECURSIVE record_elements_shifted(_, _, _)
\* the element coefficients are read one column too early
record_elements_shifted(c, parameters, i) ==
  IF Failed(c) \/ i >= Len(c.elements) THEN c
  ELSE record_elements_shifted([c EXCEPT !.elems[c.elements[i + 1]].parameter =
                                            parameters[i + 1 + 2 * c.num_variables]],
                               parameters, i + 1)

RECURSIVE record_elements(_, _, _)
\* self._elements[i].parameter = self._parameters[:, i + 1 + 2 * self._num_variables]
record_elements(c, parameters, i) ==
  IF Failed(c) \/ i >= Len(c.elements) THEN c
  ELSE IF i + 2 + 2 * c.num_variables > Len(parameters) THEN Raise(c, "IndexError")
  ELSE record_elements([c EXCEPT !.elems[c.elements[i + 1]].parameter =
                                    parameters[i + 2 + 2 * c.num_variables]],
                       parameters, i + 1)

\* the columns of the fitted tensor: column k holds the coefficient of feature column k
FittedColumns(feats, parameters) ==
  Tuple([k \in 1..Len(parameters) |-> Column(feats[k].kind, feats[k].id, parameters[k])])

\* _record_learned_parameters(model.coef_) after a fit on the features feats
record_learned_parameters(c, feats, parameters) ==
  record_elements(
    record_terminals([c EXCEPT !.parameters = FittedColumns(feats, parameters),
                               !.bias = parameters[1]],
                     parameters, 0),
    parameters, 0)

\* learn_parameters(data, ...): fit number f of the given solver on data.features
learn_parameters(c, feats, solver, f) ==
  record_learned_parameters(
    IF solver \in BayesianSolvers THEN [c EXCEPT !.covariance = <<Sigma(feats, f)>>] ELSE c,
    feats, Coefficients(feats, f))

\* ------------------------------------------------- learn_regression_circuit
\* training data of the learner: one supported column at most, which qualifies
LearnPickSets(c) ==
  PickSetsUpTo({p \in Picks(c) : /\ p.variable \in c.elems[p.element].splittable_variables
                                  /\ p.avar = 0 /\ p.ovar = MaxVariance},
               MaxLearnPicks)

Configs ==
  [max_iter_sl : 1..MaxIter, validate_every : 1..MaxValidateEvery, patience : 0..MaxPatience,
   valid : BOOLEAN, depth : {MaxDepth}, num_splits : {1}, solver : {"auto"}]

\* the locals after the lines before the loop: error_history = [train_acc],
\* valid_best = +inf, best_model = copy.deepcopy(circuit), c_patience = 0; an
\* entry of error_history is the number of rounds made when it was appended
Started(config, c) ==
  [pc |-> "round", config |-> config, i |-> 0, c_patience |-> 0, valid_best |-> MaxError + 1,
   best_model |-> c, validated |-> <<>>, returned |-> NotLearning, error_history |-> <<0>>]

\* train_acc = circuit.calculate_error(train); error_history.append(train_acc)
Recorded(l, c, feats) ==
  IF Failed(c) \/ predict_fails(c, feats) THEN [l EXCEPT !.pc = "raised"]
  ELSE [l EXCEPT !.pc = "validate", !.error_history = Append(@, l.i + 1)]

\* `return best_model, error_history`
ReturnedModel_working_circuit(l, c) == c

ReturnedModel(l, c) == l.best_model

\* circuit = RegressionCircuit(vtree); train.features = circuit.calculate_features(...)
LearnStart ==
  /\ learner.pc = "idle"
  /\ nops = 0
  /\ circuit.num_variables <= MaxLearnVariables
  /\ \E config \in Configs : learner' = Started(config, circuit)
  /\ features' = calculate_features(circuit)
  /\ UNCHANGED <<circuit, prev, last, nops, file>>

\* circuit.change_structure(train, depth, num_splits, alpha)
LearnStructure ==
  /\ learner.pc = "round"
  /\ learner.i < learner.config.max_iter_sl
  /\ \E P \in LearnPickSets(circuit) :
       /\ circuit' = change_structure(circuit, features, P, learner.config.depth,
                                      learner.config.num_splits)
       /\ last' = Call("change_structure", 0, 0, learner.config.depth,
                       learner.config.num_splits, P, <<>>)
  /\ learner' = [learner EXCEPT !.pc = IF Failed(circuit') THEN "raised" ELSE "features"]
  /\ prev' = circuit
  /\ UNCHANGED <<features, nops, file>>

\* the loop is over: return best_model
LearnReturn ==
  /\ learner.pc = "round"
  /\ learner.i >= learner.config.max_iter_sl
  /\ learner' = [learner EXCEPT !.pc = "done", !.returned = ReturnedModel(learner, circuit)]
  /\ UNCHANGED <<circuit, features, prev, last, nops, file>>

\* train.features = circuit.calculate_features(train.images)
LearnFeatures ==
  /\ learner.pc = "features"
  /\ features' = calculate_features(circuit)
  /\ learner' = [learner EXCEPT !.pc = "fit"]
  /\ UNCHANGED <<circuit, prev, last, nops, file>>

\* circuit.learn_parameters(train, ...); circuit.calculate_error(train)
LearnParameters ==
  /\ learner.pc = "fit"
  /\ \E f \in 0..MaxFit :
       circuit' = learn_parameters(circuit, features, learner.config.solver, f)
  /\ last' = Call("learn_parameters", 0, 0, 0, 0, {}, <<>>)
  /\ learner' = Recorded(learner, circuit', features)
  /\ prev' = circuit
  /\ UNCHANGED <<features, nops, file>>

\* a validation is made without a validation set
Validates_without_set(l) == l.i % l.config.validate_every = 0

\* `if i % validate_every == 0 and valid is not None`
Validates(l) == l.i % l.config.validate_every = 0 /\ l.config.valid

\* the loop stops one non-improving validation later: `c_patience > patience`
Validated_late_stop(l, c, valid_err) ==
  IF valid_err >= l.valid_best
  THEN IF l.c_patience > l.config.patience
       THEN [l EXCEPT !.pc = "done",
                      !.validated = Append(@, [i |-> l.i, err |-> valid_err, circuit |-> c]),
                      !.returned = ReturnedModel(l, c)]
       ELSE [l EXCEPT !.pc = "round", !.i = @ + 1, !.c_patience = @ + 1,
                      !.validated = Append(@, [i |-> l.i, err |-> valid_err, circuit |-> c])]
  ELSE [l EXCEPT !.pc = "round", !.i = @ + 1, !.c_patience = 0, !.valid_best = valid_err,
                 !.best_model = c,
                 !.validated = Append(@, [i |-> l.i, err |-> valid_err, circuit |-> c])]

\* l after the validation of round l.i gave valid_err on circuit c
Validated(l, c, valid_err) ==
  IF valid_err >= l.valid_best
  THEN IF l.c_patience >= l.config.patience
       THEN [l EXCEPT !.pc = "done",
                      !.validated = Append(@, [i |-> l.i, err |-> valid_err, circuit |-> c]),
                      !.returned = ReturnedModel(l, c)]
       ELSE [l EXCEPT !.pc = "round", !.i = @ + 1, !.c_patience = @ + 1,
                      !.validated = Append(@, [i |-> l.i, err |-> valid_err, circuit |-> c])]
  ELSE [l EXCEPT !.pc = "round", !.i = @ + 1, !.c_patience = 0, !.valid_best = valid_err,
                 !.best_model = c,
                 !.validated = Append(@, [i |-> l.i, err |-> valid_err, circuit |-> c])]

\* the end of a round: the validation, when one is due
LearnValidate ==
  /\ learner.pc = "validate"
  /\ IF Validates(learner)
     THEN \E valid_err \in 0..MaxError : learner' = Validated(learner, circuit, valid_err)
     ELSE learner' = [learner EXCEPT !.pc = "round", !.i = @ + 1]
  /\ UNCHANGED <<circuit, features, prev, last, nops, file>>

NextLearn ==
  LearnStart \/ LearnStructure \/ LearnFeatures \/ LearnParameters \/ LearnValidate \/ LearnReturn

\* the training loop
SpecLearn == Init /\ [][NextLearn]_vars

\* circuit.learn_parameters(data, ...) on freshly extracted features
Fit ==
  /\ nops < MaxOps
  /\ ~Failed(circuit)
  /\ Synchronized(circuit)
  /\ file = NoFile
  /\ \E solver \in {"auto", "bayesian-ridge"}, f \in 0..MaxFit :
       circuit' = learn_parameters(circuit, calculate_features(circuit), solver, f)
  /\ last' = Call("learn_parameters", 0, 0, 0, 0, {}, <<>>)
  /\ prev' = circuit
  /\ nops' = nops + 1
  /\ UNCHANGED <<features, learner, file>>

\* circuit.save(f)
Save ==
  /\ ~Failed(circuit)
  /\ file = NoFile
  /\ circuit' = save(circuit).c
  /\ file' = [lines |-> save(circuit).lines, edits |-> 0]
  /\ last' = Call("save", 0, 0, 0, 0, {}, <<>>)
  /\ prev' = circuit
  /\ UNCHANGED <<features, nops, learner>>

\* the file is edited between save and load; the files edited are those of
\* built circuits, fitted by a Bayesian solver or not fitted
Editable ==
  /\ file # NoFile
  /\ last.op \in {"save", "edit"}
  /\ nops = 0 \/ (nops = 1 /\ circuit.covariance # <<>>)

WithoutLine(q, k) == Tuple([i \in 1..(Len(q) - 1) |-> IF i < k THEN q[i] ELSE q[i + 1]])

WithLineTwice(q, k) == Tuple([i \in 1..(Len(q) + 1) |-> IF i <= k THEN q[i] ELSE q[i - 1]])

\* a line is lost
DropLine ==
  /\ Editable
  /\ file.edits = 0
  /\ \E k \in 1..Len(file.lines) : file' = [lines |-> WithoutLine(file.lines, k), edits |-> 1]
  /\ last' = Call("edit", 0, 0, 0, 0, {}, <<>>)
  /\ UNCHANGED <<circuit, features, prev, nops, learner>>

\* a line is written twice
RepeatLine ==
  /\ Editable
  /\ file.edits = 0
  /\ \E k \in 1..Len(file.lines) : file' = [lines |-> WithLineTwice(file.lines, k), edits |-> 1]
  /\ last' = Call("edit", 0, 0, 0, 0, {}, <<>>)
  /\ UNCHANGED <<circuit, features, prev, nops, learner>>

\* a V line is added at the end
AddCovarianceLine ==
  /\ Editable
  /\ file.edits < MaxEdits
  /\ \E n \in 0..MaxValues :
       file' = [lines |-> Append(file.lines, [tag |-> "V", count |-> n, value |-> file.edits]),
                edits |-> file.edits + 1]
  /\ last' = Call("edit", 0, 0, 0, 0, {}, <<>>)
  /\ UNCHANGED <<circuit, features, prev, nops, learner>>

\* RegressionCircuit(vtree, circuit_file) with the vtree of the saved circuit
Load ==
  /\ file # NoFile
  /\ last.op \in {"save", "edit"}
  /\ circuit' = LoadedCircuit(circuit.vtree, file.lines)
  /\ last' = Call("load", 0, 0, 0, 0, {}, <<>>)
  /\ prev' = circuit
  /\ UNCHANGED <<features, nops, learner, file>>

\* circuit._split(...) before the circuit is saved, or on the circuit loaded
\* from the file as save wrote it
SplitAroundFile ==
  /\ file = NoFile \/ (file.edits = 0 /\ last.op \in {"load", "split"})
  /\ Split

\* the sub of an element of a D line whose prime is a positive literal is
\* replaced by the index of the negative literal of the same variable
RewriteSub ==
  /\ Editable
  /\ file.edits = 0
  /\ \E k, t, u \in 1..Len(file.lines) :
       /\ file.lines[k].tag = "D"
       /\ file.lines[t].tag = "F"
       /\ file.lines[u].tag = "T"
       /\ file.lines[t].var = file.lines[u].var
       /\ \E i \in 1..Len(file.lines[k].elements) :
            /\ file.lines[k].elements[i].prime = file.lines[u].index
            /\ file' = [lines |-> [file.lines EXCEPT ![k].elements[i].sub = file.lines[t].index],
                        edits |-> 1]
  /\ last' = Call("edit", 0, 0, 0, 0, {}, <<>>)
  /\ UNCHANGED <<circuit, features, prev, nops, learner>>

NextFile == SplitAroundFile \/ Fit \/ Save \/ DropLine \/ RepeatLine \/ AddCovarianceLine \/ Load

NextRound == Save \/ RewriteSub \/ Load \/ ChangeStructure

\* structure rounds on built circuits and on circuits loaded from files in
\* which a reference was rewritten
SpecRound == Init /\ [][NextRound]_vars

\* circuits are saved, the files edited and loaded
SpecFile == Init /\ [][NextFile]_vars

\* circuit.learn_parameters(data, ...) with any solver; the fits are numbered
\* by the calls made so far, so that two fits return different covariances
LearnParametersCall ==
  /\ nops < MaxOps
  /\ ~Failed(circuit)
  /\ Synchronized(circuit)
  /\ \E solver \in Solvers :
       circuit' = learn_parameters(circuit, calculate_features(circuit), solver, nops)
  /\ last' = Call("learn_parameters", 0, 0, 0, 0, {}, <<>>)
  /\ prev' = circuit
  /\ nops' = nops + 1
  /\ UNCHANGED <<features, learner, file>>

\* circuit.change_structure(data, depth, num_splits, alpha) on a fitted circuit
ChangeStructureFitted ==
  /\ nops < MaxOps
  /\ last.op = "learn_parameters"
  /\ ~Failed(circuit)
  /\ Synchronized(circuit)
  /\ \E P \in QualifyingPickSets(circuit), d \in 0..MaxDepth, k \in 0..MaxNumSplits :
       /\ circuit' = change_structure(circuit, calculate_features(circuit), P, d, k)
       /\ last' = Call("change_structure", 0, 0, d, k, P,
                       select_element_and_variable_to_split(circuit, P, k).splits)
  /\ prev' = circuit
  /\ nops' = nops + 1
  /\ UNCHANGED <<features, learner, file>>

NextFitted == LearnParametersCall \/ ChangeStructureFitted

\* fits, and rounds on fitted circuits
SpecFitted == Init /\ [][NextFitted]_vars

\* an F line of the saved file is made a T line: the file then names the
\* positive literal of a variable twice and its negative literal never
FlipLiteral ==
  /\ Editable
  /\ file.edits = 0
  /\ \E k \in 1..Len(file.lines) :
       /\ file.lines[k].tag = "F"
       /\ file' = [lines |-> [file.lines EXCEPT ![k].tag = "T"], edits |-> 1]
  /\ last' = Call("edit", 0, 0, 0, 0, {}, <<>>)
  /\ UNCHANGED <<circuit, features, prev, nops, learner>>

NextLiterals == SplitAroundFile \/ Save \/ FlipLiteral \/ Load

\* splits, and loads of files as saved or with a literal flipped
SpecLiterals == Init /\ [][NextLiterals]_vars

\* ================================================================ claims
\* the last call was a split that returned
SuccessfulSplit == last.op = "split" /\ ~Failed(circuit)

\* the nodes below element e, the elements of the subgraph split at e
NodesBelow(c, e) == ReachFrom(c, Children(c, e), {})
ElementsBelow(c, e) == {e} \cup ElementsOf(c, NodesBelow(c, e))

\* the elements of c that reference node n as prime or sub
ParentsOf(c, n) == {x \in ReachElems(c) : n \in Children(c, x)}

\* OR-gates below e that an AND-element outside the subgraph of e references
SharedBelow(c, e) ==
  {g \in NodesBelow(c, e) : IsOrGate(c, g) /\ ParentsOf(c, g) \ ElementsBelow(c, e) # {}}

SameElement(c1, c2, x) ==
  /\ c2.elems[x].prime = c1.elems[x].prime
  /\ c2.elems[x].sub = c1.elems[x].sub
  /\ c2.elems[x].splittable_variables = c1.elems[x].splittable_variables

SameGate(c1, c2, g) ==
  /\ c2.nodes[g].elements = c1.nodes[g].elements
  /\ \A x \in Range(c1.nodes[g].elements) : SameElement(c1, c2, x)

\* C1: a split of element e leaves every OR-gate below e that has a parent
\* outside the subgraph of e as it was: same element list, and the same
\* prime, sub and splittable_variables of each of its elements.
C1_SharedGatesUntouched ==
  SuccessfulSplit => \A g \in SharedBelow(prev, last.element) : SameGate(prev, circuit, g)

\* a split that walked into a gate shared with an element outside the subgraph
C1_Witness ==
  /\ SuccessfulSplit
  /\ \E g \in SharedBelow(prev, last.element) : last.variable \in node_variables(prev, g)

\* C2: num_parents of every reachable node is the number of reachable
\* AND-elements that reference it as prime or sub.
C2_ExactParentCounts ==
  ~Failed(circuit) =>
    \A n \in ReachNodes(circuit) :
      circuit.nodes[n].num_parents = Cardinality(ParentsOf(circuit, n))

\* elements created by the call, elements the call changed
CreatedElements == (Len(prev.elems) + 1)..Len(circuit.elems)
ModifiedElements == {x \in 1..Len(prev.elems) : circuit.elems[x] # prev.elems[x]}

\* C3: after a split on variable v, v is in the splittable set of no element
\* the split created or modified (the split element, its copy, the elements
\* walked below them and the deep copies of shared nodes).
C3_VariableNoLongerSplittable ==
  SuccessfulSplit =>
    \A x \in CreatedElements \cup ModifiedElements :
      last.variable \notin circuit.elems[x].splittable_variables

\* a split that created, below the split element, an element that can still be split
C3_Witness ==
  /\ SuccessfulSplit
  /\ last.variable \notin circuit.elems[last.element].splittable_variables
  /\ \E x \in CreatedElements :
       /\ circuit.elems[x].parent # prev.elems[last.element].parent
       /\ circuit.elems[x].splittable_variables # {}

\* the last call asked for a split on a variable not splittable on the element
UnsplittableRequest ==
  /\ last.op = "split"
  /\ last.variable \notin prev.elems[last.element].splittable_variables

\* C4: a split on a variable that is not splittable on the element reports
\* an error and leaves the circuit as it was.
C4_RejectedBeforeMutation ==
  UnsplittableRequest => Failed(circuit) /\ [circuit EXCEPT !.err = "none"] = prev

RECURSIVE Sat(_, _, _)
\* node n accepts the assignment that makes exactly the variables of A true
Sat(c, n, A) ==
  IF c.nodes[n].kind = "T"
  THEN (c.nodes[n].var_index \in A) = (c.nodes[n].var_value = LITERAL_IS_TRUE)
  ELSE \E x \in Range(c.nodes[n].elements) : Sat(c, c.elems[x].prime, A) /\ Sat(c, c.elems[x].sub, A)

\* the elements of gate g that the assignment A satisfies
SatisfiedElements(c, g, A) ==
  {i \in 1..Len(c.nodes[g].elements) :
     /\ Sat(c, c.elems[c.nodes[g].elements[i]].prime, A)
     /\ Sat(c, c.elems[c.nodes[g].elements[i]].sub, A)}

OwningGate == prev.elems[last.element].parent

\* C10: a successful split appends exactly one new element to the list of the
\* gate that owned the split element; the new element's parent is that gate
\* and the split element keeps its position.
C10_OwnerGainsOneElement ==
  SuccessfulSplit =>
    /\ last.element \in Range(prev.nodes[OwningGate].elements)
    /\ Len(circuit.nodes[OwningGate].elements) = Len(prev.nodes[OwningGate].elements) + 1
    /\ SubSeq(circuit.nodes[OwningGate].elements, 1, Len(prev.nodes[OwningGate].elements))
         = prev.nodes[OwningGate].elements
    /\ circuit.nodes[OwningGate].elements[Len(circuit.nodes[OwningGate].elements)]
         \in CreatedElements
    /\ circuit.elems[circuit.nodes[OwningGate].elements[Len(circuit.nodes[OwningGate].elements)]].parent
         = OwningGate

\* a successful split of an element that was not the last one of a gate below the root
C10_Witness ==
  /\ SuccessfulSplit
  /\ OwningGate # prev.root
  /\ prev.nodes[OwningGate].elements[Len(prev.nodes[OwningGate].elements)] # last.element

\* the last call was the selector
SelectorCall == last.op = "select"

\* the supported columns of the data whose best after-split variance is below
\* their gradient variance
Qualifying(P) == {p \in P : p.avar < p.ovar}

\* C5: with num_splits = 0 the selector returns the empty list and does not fail.
C5_ZeroSplitsReturnsEmpty ==
  (SelectorCall /\ last.num_splits = 0) => ~Failed(circuit) /\ last.splits = <<>>

SplitElements(splits) == {splits[i].element : i \in 1..Len(splits)}

\* C6: for num_splits >= 1 the selector returns at most num_splits pairs with
\* distinct elements, each variable splittable on its element, and leaves
\* the circuit as it was.
C6_SelectorOutput ==
  (SelectorCall /\ last.num_splits >= 1) =>
    /\ ~Failed(circuit)
    /\ Len(last.splits) <= last.num_splits
    /\ Cardinality(SplitElements(last.splits)) = Len(last.splits)
    /\ \A i \in 1..Len(last.splits) :
         last.splits[i].variable \in circuit.elems[last.splits[i].element].splittable_variables
    /\ circuit = prev

\* the selector was given more qualifying columns than num_splits, on a refined circuit
C6_Witness ==
  /\ SelectorCall
  /\ last.num_splits >= 1
  /\ Cardinality(Qualifying(last.data)) > last.num_splits
  /\ Len(last.splits) = last.num_splits

\* the improvement (postVar - originalVar) of the supported column of element e
Improvement(P, e) == (CHOOSE p \in P : p.element = e).avar - (CHOOSE p \in P : p.element = e).ovar

RECURSIVE ImprovementsFrom(_, _)
\* the improvements of the qualifying columns, from a upwards (most negative first)
ImprovementsFrom(P, a) ==
  IF a > -1 THEN <<>>
  ELSE Tuple([i \in 1..Cardinality({p \in Qualifying(P) : p.avar - p.ovar = a}) |-> a])
       \o ImprovementsFrom(P, a + 1)

\* C19: for num_splits >= 1 the selector returns the num_splits qualifying
\* candidates with the most negative improvement (all of them if fewer
\* qualify), ordered from most to least improvement.
C19_KeepsTheBest ==
  (SelectorCall /\ last.num_splits >= 1 /\ ~Failed(circuit)) =>
    Tuple([i \in 1..Len(last.splits) |-> Improvement(last.data, last.splits[i].element)])
      = SubSeq(ImprovementsFrom(last.data, 0 - MaxVariance), 1,
               Min(last.num_splits, Cardinality(Qualifying(last.data))))

\* 1 + 2 * num_variables + the number of elements reachable from the root
ExpectedWidth(c) == 1 + 2 * c.num_variables + Cardinality(ReachElems(c))

\* C7: after construction, after every change_structure round and after every
\* learn_parameters call the parameters matrix is 1 + 2n + |reachable elements|
\* wide, and in learn_regression_circuit every predict or fit call gets
\* features as wide as the parameters matrix (no call fails on the widths).
C7_WidthsAgree ==
  /\ learner.pc \in {"idle", "round", "features", "fit", "validate"}
       => Len(circuit.parameters) = ExpectedWidth(circuit)
  /\ learner.pc \in {"round", "fit", "validate"} => Len(features) = Len(circuit.parameters)
  /\ circuit.err \notin {"RuntimeError", "IndexError"}

\* a fit on the features of a circuit that a round has refined
C7_Witness ==
  /\ learner.pc = "validate"
  /\ last.op = "learn_parameters"
  /\ Len(circuit.parameters) > Len(NewCircuit(circuit.vtree).parameters)

\* the element list is the one a fresh traversal gives
ElementListCurrent(c) == c.elements = serialize(c).elements

\* the parameter of the object that column col belongs to
ObjectParameter(c, col) ==
  IF col.kind = "B" THEN c.bias
  ELSE IF col.kind = "T" THEN c.nodes[col.id].parameter
  ELSE c.elems[col.id].parameter

\* column k of the features and column k of the parameters belong to the same
\* object, whose parameter is the value of that parameters column
SameObject(c, feats, k) ==
  /\ feats[k].kind = c.parameters[k].kind
  /\ feats[k].id = c.parameters[k].id
  /\ c.parameters[k].value = ObjectParameter(c, feats[k])

\* feats = calculate_features(c)
ColumnsAgree(c, feats) ==
  /\ Len(feats) = 1 + 2 * c.num_variables + Len(c.elements)
  /\ Len(c.parameters) = Len(feats)
  /\ feats[1].kind = "B"
  /\ \A i \in 1..(2 * c.num_variables) :
       feats[1 + i].kind = "T" /\ feats[1 + i].id = c.terminal_nodes[i]
  /\ \A i \in 1..Len(c.elements) :
       /\ feats[1 + 2 * c.num_variables + i].kind = "E"
       /\ feats[1 + 2 * c.num_variables + i].id = c.elements[i]
  /\ \A k \in 1..Len(feats) : SameObject(c, feats, k)

\* C8: when the element list is current, calculate_features gives
\* 1 + 2n + |elements| columns and column k is the column of the object of
\* parameters column k (bias, terminals in array order, elements in list
\* order), the object _record_learned_parameters writes coefficient k to.
C8_FeatureColumnsMatchParameters ==
  (~Failed(circuit) /\ ElementListCurrent(circuit))
    => ColumnsAgree(circuit, calculate_features(circuit))

\* the coefficients of a fit were written back into a refined circuit
C8_Witness ==
  /\ last.op = "learn_parameters"
  /\ ~Failed(circuit)
  /\ Len(circuit.elements) > Len(NewCircuit(circuit.vtree).elements)
  /\ circuit.bias # prev.bias

\* how far the learner l has come: the rounds ended and the place in the round;
\* no step goes beyond the value of a learner that returned or raised
PlaceInRound(pc) ==
  CASE pc = "round" -> 1 [] pc = "features" -> 2 [] pc = "fit" -> 3 [] pc = "validate" -> 4
Progress(l) ==
  IF l.pc = "idle" THEN 0
  ELSE IF l.pc \in {"done", "raised"} THEN 5 * (l.config.max_iter_sl + 1)
  ELSE 5 * l.i + PlaceInRound(l.pc)

\* the loop was left by `break`
EarlyStopped == learner.pc = "done" /\ learner.i < learner.config.max_iter_sl

\* the round indices whose end the loop has passed
RoundsEnded ==
  {j \in 0..MaxIter : j < learner.i \/ (j = learner.i /\ EarlyStopped)}

\* validation k of history h found an error strictly below every earlier one
Improving(h, k) == \A j \in 1..(k - 1) : h[k].err < h[j].err

\* the number of validations at the end of h none of which improved
TrailingNonImproving(h) ==
  Cardinality({k \in 1..Len(h) : \A j \in k..Len(h) : ~Improving(h, j)})

\* what the loop has done so far agrees with the claim
LoopAsClaimed ==
  learner.pc # "idle" =>
    /\ learner.i <= learner.config.max_iter_sl
    /\ learner.pc \in {"features", "fit", "validate"} => learner.i < learner.config.max_iter_sl
    /\ {learner.validated[k].i : k \in 1..Len(learner.validated)}
         = {j \in RoundsEnded : j % learner.config.validate_every = 0 /\ learner.config.valid}
    /\ EarlyStopped <=> TrailingNonImproving(learner.validated) = learner.config.patience + 1
    /\ ~EarlyStopped => learner.c_patience = TrailingNonImproving(learner.validated)

\* C17: every step of the learner brings it nearer to its end, which comes
\* after at most max_iter_sl rounds; it validates exactly at the rounds i
\* with i % validate_every = 0; the patience counter is 0 after a strict
\* improvement and one higher after a non-improving validation; the loop
\* stops early exactly at the (patience+1)-th consecutive non-improving
\* validation.
C17_LoopTerminatesAsClaimed ==
  [][LoopAsClaimed' /\ Progress(learner') > Progress(learner)]_vars

\* the loop stopped early after patience + 1 non-improving validations, patience > 0
C17_Witness ==
  /\ EarlyStopped
  /\ learner.config.patience = MaxPatience
  /\ Len(learner.validated) > learner.config.patience + 1

\* validation k of history h has the least error and is the earliest with it
EarliestBest(h, k) ==
  /\ \A j \in 1..Len(h) : h[k].err <= h[j].err
  /\ \A j \in 1..(k - 1) : h[j].err > h[k].err

\* C18: when a round was validated, the returned circuit is the circuit as it
\* was at the earliest validated round with the least validation error,
\* whatever later rounds did to the working circuit.
C18_ReturnsEarliestBest ==
  (learner.pc = "done" /\ Len(learner.validated) > 0) =>
    \E k \in 1..Len(learner.validated) :
      /\ EarliestBest(learner.validated, k)
      /\ learner.returned = learner.validated[k].circuit

\* the learner returned a snapshot older than the working circuit, and a
\* later round had the same validation error
C18_Witness ==
  /\ learner.pc = "done"
  /\ Len(learner.validated) >= 2
  /\ learner.returned # circuit
  /\ \E k \in 1..(Len(learner.validated) - 1) :
       /\ EarliestBest(learner.validated, k)
       /\ learner.validated[k].err = learner.validated[Len(learner.validated)].err

\* ---- save and load
\* a terminal, a gate and an element as the claims about files compare them:
\* nodes are named by their index, not by their place in the heap
TerminalShape(c, n) ==
  [index |-> c.nodes[n].index, var |-> c.nodes[n].var_index, value |-> c.nodes[n].var_value,
   parameter |-> c.nodes[n].parameter]

ElementShape(c, e) ==
  [prime |-> c.nodes[c.elems[e].prime].index, sub |-> c.nodes[c.elems[e].sub].index,
   parameter |-> c.elems[e].parameter]

GateShape(c, n) ==
  [index |-> c.nodes[n].index,
   elements |-> Tuple([i \in 1..Len(c.nodes[n].elements) |-> ElementShape(c, c.nodes[n].elements[i])])]

\* the parameters matrix: the values of its columns
ParameterValues(c) == Tuple([k \in 1..Len(c.parameters) |-> c.parameters[k].value])

Isomorphic(a, b) ==
  /\ Len(a.terminal_nodes) = Len(b.terminal_nodes)
  /\ \A i \in 1..Len(a.terminal_nodes) :
       TerminalShape(a, a.terminal_nodes[i]) = TerminalShape(b, b.terminal_nodes[i])
  /\ a.bias = b.bias
  /\ Cardinality(ReachGates(a)) = Cardinality(ReachGates(b))
  /\ Cardinality(ReachElems(a)) = Cardinality(ReachElems(b))
  /\ {GateShape(a, n) : n \in ReachGates(a)} = {GateShape(b, n) : n \in ReachGates(b)}
  /\ a.nodes[a.root].index = b.nodes[b.root].index
  /\ ParameterValues(a) = ParameterValues(b)
  /\ a.covariance = b.covariance

\* the last call loaded the file as save wrote it; prev is the saved circuit
LoadedSaved ==
  /\ last.op = "load"
  /\ file.edits = 0

\* C12: loading the text written by save, with the same vtree, yields an
\* isomorphic circuit: the same terminals, bias, reachable gates and elements
\* with the same prime/sub references and element order, the same parameters
\* and the same list of covariance matrices
C12_LoadOfSaveIsIsomorphic ==
  LoadedSaved => ~Failed(circuit) /\ Isomorphic(prev, circuit)

\* a refined circuit with a covariance matrix was saved and loaded
C12_Witness ==
  /\ LoadedSaved
  /\ ~Failed(circuit)
  /\ prev.covariance # <<>>
  /\ Cardinality(ReachGates(prev)) > Cardinality(ReachGates(NewCircuit(prev.vtree)))

\* ---- the order of the lines
\* the places of the lines with a tag among the given ones
Places(f, tags) == {k \in 1..Len(f) : f[k].tag \in tags}

\* the gate indexes an element list of a D line refers to
ReferencedBy(f, line) ==
  {line.elements[i].prime : i \in 1..Len(line.elements)}
  \cup {line.elements[i].sub : i \in 1..Len(line.elements)}

\* f holds the lines of circuit c in the order of the writer contract
WrittenInOrder(c, f) ==
  /\ Places(f, {"T"}) = 1..c.num_variables
  /\ Places(f, {"F"}) = (c.num_variables + 1)..(2 * c.num_variables)
  /\ \A k \in 1..c.num_variables :
       /\ f[k].var = k
       /\ f[c.num_variables + k].var = k
  /\ Places(f, {"D"}) =
       (2 * c.num_variables + 1)..(2 * c.num_variables + Cardinality(ReachGates(c)))
  /\ {f[k].index : k \in Places(f, {"D"})} = {c.nodes[n].index : n \in ReachGates(c)}
  /\ \A k \in Places(f, {"D"}) :
       \A j \in Places(f, {"D"}) :
         f[j].index \in ReferencedBy(f, f[k]) => j < k
  /\ f[2 * c.num_variables + Cardinality(ReachGates(c))].index = c.nodes[c.root].index
  /\ Places(f, {"B"}) = {2 * c.num_variables + Cardinality(ReachGates(c)) + 1}
  /\ Places(f, {"V"}) = (2 * c.num_variables + Cardinality(ReachGates(c)) + 2)..Len(f)

RECURSIVE TerminalLinesRead(_, _)
\* the T and F lines the loader reads: those before the first other line
TerminalLinesRead(f, k) ==
  IF k > Len(f) THEN {}
  ELSE IF f[k].tag \notin {"T", "F"} THEN {}
  ELSE {f[k].index} \cup TerminalLinesRead(f, k + 1)

MismatchedTerminalCount(c, f) == Cardinality(TerminalLinesRead(f, 1)) # 2 * c.num_variables

MissingRoot(f) == Places(f, {"D"}) = {}

\* C14: load fails with an error (the ValueError of lines 667 and 709), and
\* gives no circuit, whenever the number of distinct terminal lines read is
\* not 2 * num_variables and whenever the file has no D line
C14_LoadRejects ==
  (last.op = "load" /\ (MismatchedTerminalCount(prev, file.lines) \/ MissingRoot(file.lines)))
    => Failed(circuit) /\ circuit.err = "ValueError"

\* a file with all its terminal lines and no D line was rejected
C14_Witness ==
  /\ last.op = "load"
  /\ MissingRoot(file.lines)
  /\ ~MismatchedTerminalCount(prev, file.lines)
  /\ Failed(circuit)

\* a file with a terminal line missing was rejected
C14_WitnessTerminals ==
  /\ last.op = "load"
  /\ MismatchedTerminalCount(prev, file.lines)
  /\ Failed(circuit)

\* ---- malformed V lines
Malformed(line) == line.tag = "V" /\ ~IsSquare(line.count)

WithoutMalformed(f) == SelectSeq(f, LAMBDA line : ~Malformed(line))

\* the matrices of the well-formed V lines of f, in file order
WellFormedMatrices(f) ==
  Tuple([k \in 1..Len(SelectSeq(f, LAMBDA line : line.tag = "V" /\ IsSquare(line.count))) |->
     [size |-> Sqrt(SelectSeq(f, LAMBDA line : line.tag = "V" /\ IsSquare(line.count))[k].count),
      value |-> SelectSeq(f, LAMBDA line : line.tag = "V" /\ IsSquare(line.count))[k].value]])

\* the V lines of f are the lines after its one B line
CovarianceLinesLast(f) ==
  \E b \in 1..Len(f) :
    /\ Places(f, {"B"}) = {b}
    /\ Places(f, {"V"}) = (b + 1)..Len(f)

\* C15: a V line whose number of values is not a square does not abort load:
\* load succeeds if and only if it succeeds on the file without its malformed
\* lines, and then the circuit is the one loaded from that file,
\* and the covariance list holds the well-formed V lines in file order
C15_MalformedCovarianceSkipped ==
  last.op = "load" =>
    /\ Failed(circuit) <=> Failed(LoadedCircuit(prev.vtree, WithoutMalformed(file.lines)))
    /\ ~Failed(circuit) => circuit = LoadedCircuit(prev.vtree, WithoutMalformed(file.lines))
    /\ (~Failed(circuit) /\ CovarianceLinesLast(file.lines))
         => circuit.covariance = WellFormedMatrices(file.lines)

\* a file with a malformed V line between two well-formed ones was loaded
C15_Witness ==
  /\ last.op = "load"
  /\ ~Failed(circuit)
  /\ \E i, j, k \in 1..Len(file.lines) :
       /\ i < j /\ j < k
       /\ Malformed(file.lines[j])
       /\ file.lines[i].tag = "V" /\ ~Malformed(file.lines[i])
       /\ file.lines[k].tag = "V" /\ ~Malformed(file.lines[k])
  /\ CovarianceLinesLast(file.lines)
  /\ Len(circuit.covariance) = 2

\* ---- splittable variables
\* the literals among the terminals below element e: v for a positive
\* terminal of variable v, -v for a negative one
DescendantLiterals(c, e) ==
  {IF c.nodes[n].var_value = LITERAL_IS_TRUE THEN c.nodes[n].var_index
                                              ELSE 0 - c.nodes[n].var_index :
     n \in {m \in NodesBelow(c, e) : ~IsOrGate(c, m)}}

WithBothLiterals(c, e) ==
  {v \in 1..c.num_variables :
     v \in DescendantLiterals(c, e) /\ (0 - v) \in DescendantLiterals(c, e)}

\* the splittable sets of the elements of gate n, in the order of the elements
SplittableOf(c, n) ==
  [index |-> c.nodes[n].index,
   sets |-> Tuple([i \in 1..Len(c.nodes[n].elements) |->
               c.elems[c.nodes[n].elements[i]].splittable_variables])]

\* C20: in every circuit the builder, load or a sequence of splits produced,
\* the splittable_variables of each element are exactly the variables with
\* both literals among the terminals below the element, and load recomputes
\* for a saved circuit the sets its elements had
C20_SplittableIsBothLiterals ==
  /\ ~Failed(circuit) =>
       \A e \in ReachElems(circuit) :
         circuit.elems[e].splittable_variables = WithBothLiterals(circuit, e)
  /\ (LoadedSaved /\ ~Failed(circuit)) =>
       {SplittableOf(circuit, n) : n \in ReachGates(circuit)}
         = {SplittableOf(prev, n) : n \in ReachGates(prev)}

\* a loaded circuit was split on a variable that other elements keep
C20_Witness ==
  /\ SuccessfulSplit
  /\ file # NoFile
  /\ \E e \in ReachElems(circuit) :
       /\ last.variable \in circuit.elems[e].splittable_variables
       /\ circuit.elems[e].splittable_variables # 1..circuit.num_variables

\* ---- the builder
\* the (prime, sub) pairs of the elements of gate n
Pairs(c, n) ==
  {<<c.elems[e].prime, c.elems[e].sub>> : e \in Range(c.nodes[n].elements)}

Literals(c, v) == {positive_terminal(c, v), negative_terminal(c, v)}

\* gate n over the vtree node with children l and r is built as the claim says
Mirrors(c, vt, n, l, r) ==
  IF is_leaf(vt, l) /\ is_leaf(vt, r)
  THEN /\ Len(c.nodes[n].elements) = 4
       /\ Pairs(c, n) = Literals(c, vt[l].var) \X Literals(c, vt[r].var)
       /\ \A e \in Range(c.nodes[n].elements) : c.elems[e].splittable_variables = {}
  ELSE IF is_leaf(vt, l)
  THEN /\ Len(c.nodes[n].elements) = 2
       /\ {p[1] : p \in Pairs(c, n)} = Literals(c, vt[l].var)
       /\ Cardinality({p[2] : p \in Pairs(c, n)}) = 2
       /\ \A p \in Pairs(c, n) : IsOrGate(c, p[2]) /\ c.nodes[p[2]].vtree = r
       /\ \A e \in Range(c.nodes[n].elements) :
            c.elems[e].splittable_variables = variables(vt, r)
  ELSE IF is_leaf(vt, r)
  THEN /\ Len(c.nodes[n].elements) = 2
       /\ {p[2] : p \in Pairs(c, n)} = Literals(c, vt[r].var)
       /\ Cardinality({p[1] : p \in Pairs(c, n)}) = 2
       /\ \A p \in Pairs(c, n) : IsOrGate(c, p[1]) /\ c.nodes[p[1]].vtree = l
       /\ \A e \in Range(c.nodes[n].elements) :
            c.elems[e].splittable_variables = variables(vt, l)
  ELSE /\ Len(c.nodes[n].elements) = 1
       /\ \A p \in Pairs(c, n) :
            /\ IsOrGate(c, p[1]) /\ c.nodes[p[1]].vtree = l
            /\ IsOrGate(c, p[2]) /\ c.nodes[p[2]].vtree = r
       /\ \A e \in Range(c.nodes[n].elements) :
            c.elems[e].splittable_variables = variables(vt, c.nodes[n].vtree)

\* the circuit is the one the constructor built
Built == last.op = "init"

\* C16: the builder mirrors the vtree: 4 elements with no splittable variable
\* over two leaves, 2 elements splittable on the variables of the other side
\* over one leaf, each with a sub-circuit of its own, 1 element splittable on
\* all the variables of the node over no leaf; a vtree of 2 variables gives
\* 1 OR-gate, 4 elements and a parameters matrix of width 9
C16_BuilderMirrorsVtree ==
  Built =>
    /\ \A n \in ReachGates(circuit) :
         /\ Mirrors(circuit, VtreeOf(circuit), n,
                    VtreeOf(circuit)[circuit.nodes[n].vtree].left,
                    VtreeOf(circuit)[circuit.nodes[n].vtree].right)
         /\ Cardinality(ParentsOf(circuit, n)) <= 1
    /\ circuit.nodes[circuit.root].vtree = VtreeRoot(VtreeOf(circuit))
    /\ circuit.num_variables = 2 =>
         /\ Cardinality(ReachGates(circuit)) = 1
         /\ Cardinality(ReachElems(circuit)) = 4
         /\ Len(circuit.parameters) = 9

\* a circuit was built over a vtree with a node over one leaf and a node over
\* two leaves
C16_Witness ==
  /\ Built
  /\ \E n, m \in ReachGates(circuit) :
       /\ Len(circuit.nodes[n].elements) = 2
       /\ Len(circuit.nodes[m].elements) = 4

\* the circuit built over the vtree of 2 variables
C16_WitnessTwoVariables ==
  /\ Built
  /\ circuit.num_variables = 2
  /\ Len(circuit.parameters) = 9

\* ---- a failing split in a round
\* the circuit of the round of the last call before its k-th selected split
BeforeSplit(k) == apply_splits(prev, SubSeq(last.splits, 1, k - 1), 1, last.depth)

\* the k-th selected split of the round was reached and attempted, and failed
\* with an element that came back invalid
SplitFailed(k) ==
  /\ ~Failed(BeforeSplit(k))
  /\ ~BeforeSplit(k).elems[last.splits[k].element].flag
  /\ split(BeforeSplit(k), last.splits[k].element, last.splits[k].variable, last.depth).err
       = "Split elements become invalid."

\* the last call was a round in which a selected split failed and was not the
\* last of the selected splits
RoundWithFailedSplit ==
  /\ last.op = "change_structure"
  /\ \E k \in 1..(Len(last.splits) - 1) : SplitFailed(k)

\* C11: when a split of a round fails with an invalid element, the failure is
\* fatal to that split only: change_structure returns, having gone on to the
\* remaining selected splits, and has resynchronized the element list and the
\* parameters
C11_FailureFatalToThatSplitOnly ==
  RoundWithFailedSplit => ~Failed(circuit) /\ Synchronized(circuit)

\* in a round on a circuit the constructor built no selected split fails
BuiltCircuitsSplitWithoutFailure ==
  (last.op = "change_structure" /\ file = NoFile) =>
    \A k \in 1..Len(last.splits) : ~SplitFailed(k)

\* a round that applied at least one split: the parameter vector is wider
RoundThatSplit ==
  /\ last.op = "change_structure"
  /\ ~Failed(circuit)
  /\ Len(circuit.parameters) > Len(prev.parameters)

\* the covariance the fit that was just made returned: nops - 1 is its number
ReturnedByLastFit == << Sigma(calculate_features(prev), nops - 1) >>

\* after a round that applied a split no stored matrix has the width of the
\* parameter vector the round started from
NoCovarianceOfNarrowerVector ==
  RoundThatSplit =>
    \A i \in 1..Len(circuit.covariance) : circuit.covariance[i].size # Len(prev.parameters)

\* after a fit the stored covariance, if any, is the one that fit returned
CovarianceOfLastFit ==
  (last.op = "learn_parameters" /\ ~Failed(circuit)) =>
    circuit.covariance \in {<<>>, ReturnedByLastFit}

\* C21: after a change_structure round that applied a split the circuit holds
\* no covariance matrix of the narrower parameter vector, and after a
\* learn_parameters call the stored covariance, if any, is the one that fit
\* returned.
C21_CovarianceRebuilt == NoCovarianceOfNarrowerVector /\ CovarianceOfLastFit

RECURSIVE Height(_, _)
\* the depth of the vtree below node t: 0 for a leaf
Height(vt, t) ==
  IF is_leaf(vt, t) THEN 0
  ELSE 1 + (IF Height(vt, vt[t].left) > Height(vt, vt[t].right)
            THEN Height(vt, vt[t].left) ELSE Height(vt, vt[t].right))

RECURSIVE Level(_, _, _)
\* the number of edges from node `from` down to node t
Level(vt, from, t) ==
  IF from = t THEN 0
  ELSE IF is_leaf(vt, from) THEN 0 - Len(vt)
  ELSE 1 + (IF Level(vt, vt[from].left, t) > Level(vt, vt[from].right, t)
            THEN Level(vt, vt[from].left, t) ELSE Level(vt, vt[from].right, t))

\* the gates the last split created
CreatedGates == (Len(prev.nodes) + 1)..Len(circuit.nodes)

\* how many vtree levels gate n lies below the gate of the split element: the
\* children of an element entered with current_depth k lie k + 1 levels below
LevelsBelowSplit(n) ==
  Level(VtreeOf(prev), prev.nodes[prev.elems[last.element].parent].vtree, circuit.nodes[n].vtree)

\* gates created under an element that was entered past the depth budget
CreatedPastBudget == {n \in CreatedGates : LevelsBelowSplit(n) > last.depth}

TerminalsInPlace(c) ==
  /\ Len(c.terminal_nodes) = 2 * c.num_variables
  /\ \A v \in 1..c.num_variables :
       /\ c.terminal_nodes[v] # c.terminal_nodes[c.num_variables + v]
       /\ c.nodes[c.terminal_nodes[v]].kind = "T"
       /\ c.nodes[c.terminal_nodes[v]].var_index = v
       /\ c.nodes[c.terminal_nodes[v]].var_value = LITERAL_IS_TRUE
       /\ c.nodes[c.terminal_nodes[c.num_variables + v]].kind = "T"
       /\ c.nodes[c.terminal_nodes[c.num_variables + v]].var_index = v
       /\ c.nodes[c.terminal_nodes[c.num_variables + v]].var_value = LITERAL_IS_FALSE

Terminals(c) == {n \in 1..Len(c.nodes) : c.nodes[n].kind = "T"}

\* the call left the terminals as they were: none created, removed, moved or changed
TerminalsKept(a, b) ==
  /\ b.terminal_nodes = a.terminal_nodes
  /\ Terminals(b) = Terminals(a)
  /\ \A n \in Terminals(a) : /\ b.nodes[n].var_index = a.nodes[n].var_index
                             /\ b.nodes[n].var_value = a.nodes[n].var_value

\* the constructor returned: the builder ran, or load succeeded
Constructed == last.op \in {"init", "load"} /\ ~Failed(circuit)

\* no split creates, removes, reorders or changes a terminal
SplitsKeepTerminals == last.op = "split" => TerminalsKept(prev, circuit)

\* C23: after construction by the builder or by any load that succeeds the
\* terminal array holds the positive literal of each variable v at position
\* v - 1 and its negative literal at position num_variables + v - 1, and no
\* split changes the terminals.
C23_TerminalsInPlace ==
  /\ Constructed => TerminalsInPlace(circuit)
  /\ SplitsKeepTerminals

\* the T, F and D lines of the file carry pairwise different ids
UniqueIds(f) ==
  \A j, k \in 1..Len(f) :
    (j # k /\ f[j].tag \in {"T", "F", "D"} /\ f[k].tag \in {"T", "F", "D"})
      => f[j].index # f[k].index

\* no two nodes of c, reachable or not, carry the same index
UniqueIndices(c) ==
  \A n, m \in 1..Len(c.nodes) : n # m => c.nodes[n].index # c.nodes[m].index

\* the traversal of _serialize, which tells gates apart by index, lists every
\* gate that is reachable from the root
SerializeListsEveryGate(c) ==
  c.root # 0 => Range(serialize(c).decision_nodes) = ReachGates(c)

\* C24: in every circuit reached by splits from a built circuit, or from a
\* circuit loaded from a file with unique ids, no two nodes carry the same
\* index, and _serialize lists every reachable gate.
C24_UniqueIndices ==
  UniqueIds(file.lines) => UniqueIndices(circuit) /\ SerializeListsEveryGate(circuit)

\* a split of a loaded circuit that created two gates or more
C24_Witness ==
  /\ SuccessfulSplit
  /\ file # NoFile
  /\ Len(circuit.nodes) >= Len(prev.nodes) + 2

\* ---- the flag within a round
\* the last call was a round that returned
RoundEnded == last.op = "change_structure" /\ ~Failed(circuit)

\* the element of the k-th selected split was visited by an earlier split of
\* the round: _copy_and_modify_element_for_split was entered on it
VisitedEarlier(k) == BeforeSplit(k).elems[last.splits[k].element].flag

\* the k-th selected split was not applied
Skipped(k) == BeforeSplit(k + 1) = BeforeSplit(k)

\* C25: within a round an element that an earlier split of the round visited
\* is not split again, and when the round ends normally every element
\* reachable from the root has flag = false.
C25_VisitedNotSplitAgain ==
  RoundEnded =>
    /\ \A k \in 1..Len(last.splits) : VisitedEarlier(k) => Skipped(k)
    /\ \A e \in ReachElems(circuit) : ~circuit.elems[e].flag

\* a round whose second selected element lay under the first and was visited
C25_Witness ==
  /\ RoundEnded
  /\ Len(last.splits) = 2
  /\ VisitedEarlier(2)
  /\ ~Skipped(1)

\* the elements of the circuit the builder made for the vtree of c
BuiltElements(c) == 1..Len(NewCircuit(c.vtree).elems)

\* C26: from a built circuit, whatever splits are applied, each to a reachable
\* element and a variable that is splittable on it at that moment and with any
\* depth, no split raises an error.
C26_SplitsNeverFail == last.op = "split" => circuit.err = "none"

\* a second split, made on an element that the first split created
C26_Witness ==
  /\ SuccessfulSplit
  /\ nops = MaxOps
  /\ last.element \notin BuiltElements(circuit)

\* ---- what a split separates
\* the element the last split added next to the split element
Sibling == circuit.nodes[OwningGate].elements[Len(circuit.nodes[OwningGate].elements)]

\* the literals of the variables other than v
OtherLiterals(literals, v) == literals \ {v, 0 - v}

\* the child of element e of c whose vtree does not hold variable v
ChildWithout(c, e, v) ==
  IF v \in node_variables(c, prime_of(c, e)) THEN sub_of(c, e) ELSE prime_of(c, e)

\* the elements the split created in a gate that lies at least last.depth
\* levels below the gate of the split element: the copies made at or past the
\* cut-off of the depth budget
CopiesPastBudget ==
  {y \in CreatedElements :
     /\ circuit.elems[y].parent # 0
     /\ Level(VtreeOf(prev), prev.nodes[OwningGate].vtree,
              circuit.nodes[circuit.elems[y].parent].vtree) >= last.depth}

\* C27: after a successful split of e on v, with any depth, the negative
\* literal of v is not below e and the positive literal of v is not below the
\* new sibling, for every other variable the two elements together have the
\* literals e had, and at the cut-off of the depth budget the child whose
\* vtree does not hold v is the same node in the original and in the copy.
C27_SplitSeparatesLiterals ==
  SuccessfulSplit =>
    /\ (0 - last.variable) \notin DescendantLiterals(circuit, last.element)
    /\ last.variable \notin DescendantLiterals(circuit, Sibling)
    /\ OtherLiterals(DescendantLiterals(circuit, last.element)
                       \cup DescendantLiterals(circuit, Sibling), last.variable)
         = OtherLiterals(DescendantLiterals(prev, last.element), last.variable)
    /\ last.depth = 0 =>
         /\ ChildWithout(circuit, Sibling, last.variable)
              = ChildWithout(circuit, last.element, last.variable)
         /\ ChildWithout(circuit, last.element, last.variable)
              = ChildWithout(prev, last.element, last.variable)
    /\ \A y \in CopiesPastBudget :
         ChildWithout(circuit, y, last.variable) \in 1..Len(prev.nodes)

\* a split with depth 0 of an element over two gates: the gate without the
\* variable is shared, the other one is copied
C27_Witness ==
  /\ SuccessfulSplit
  /\ last.depth = 0
  /\ IsOrGate(circuit, ChildWithout(circuit, Sibling, last.variable))
  /\ DescendantLiterals(circuit, Sibling) # DescendantLiterals(circuit, last.element)

\* ---- training without a validation set
\* learn_regression_circuit was called with valid = None
WithoutValidationSet == learner.pc # "idle" /\ ~learner.config.valid

\* the call without a validation set returned
ReturnedWithoutValidation == WithoutValidationSet /\ learner.pc = "done"

\* C28: without a validation set no round is validated, the loop runs exactly
\* max_iter_sl rounds, the error history has max_iter_sl + 1 entries and the
\* returned circuit is the copy of the initial circuit taken before the first
\* round, not the circuit of the last round.
C28_WithoutValidationReturnsInitial ==
  /\ WithoutValidationSet => learner.validated = <<>>
  /\ ReturnedWithoutValidation =>
       /\ learner.i = learner.config.max_iter_sl
       /\ Len(learner.error_history) = learner.config.max_iter_sl + 1
       /\ learner.returned = NewCircuit(circuit.vtree)
       /\ learner.returned # circuit

\* a call without a validation set that returned after two rounds or more,
\* one of which split an element
C28_Witness ==
  /\ ReturnedWithoutValidation
  /\ learner.config.max_iter_sl >= 2
  /\ Len(circuit.elements) > Len(learner.returned.elements)

====
